---- MODULE Spec2Model ----
(***************************************************************************)
(* A model of the personalization / memory subsystem: the                  *)
(* PersonalizationService (users, persistent memory, chat sessions and     *)
(* messages, tool executions and derived memories) and the request         *)
(* handlers that drive it.  Every database statement the service awaits is *)
(* one step of a request, so that overlapping requests interleave exactly  *)
(* at the await points of the code, and every statement may fail (the      *)
(* code wraps each method in try/catch for that reason).                   *)
(***************************************************************************)
EXTENDS Integers, Sequences, FiniteSets, Bags, TLC

\* ------------------------------------------------------------------ bounds

\* Persistent-memory requests started in one behaviour when requests are
\* served one at a time, and when they overlap.
MaxRequests == 3
MaxOverlapping == 2

\* Chat requests started in one behaviour when requests are served one at a
\* time, and when they overlap; the latest clock reading.
MaxChatRequests == 3
MaxChatOverlapping == 3
MaxClock == 1

\* Requests served in one behaviour of the title specification.
MaxTitleRequests == 3

\* recordToolExecution calls made in one behaviour.
MaxToolCalls == 2

\* Overlapping chat requests in one behaviour of the delete specification.
MaxDeleteRequests == 3

\* Steps of time and calls of SessionService in one behaviour.
MaxSessionTicks == 3
MaxSessionCalls == 4

\* storeMessage calls made by one page.
MaxStoreCalls == 3

\* Pieces of the longest section given to the subsection parsers.
MaxSectionPieces == 4

\* Pieces of the longest text given to parseStructuredPlan.
MaxPlanLength == 4

\* Requests to the apps route in one behaviour.
MaxAppRequests == 4

\* Service calls made in one behaviour of the service specification.
MaxServiceCalls == 3

\* Service calls made in one behaviour of the context specification.
MaxContextCalls == 5

\* ------------------------------------------------------------ value domains

\* Two concurrently served requests (the server is event driven: a request
\* is suspended at every await and another one may run).
Procs == {1, 2}

\* User ids; "" is a request that carries no userId.
UserIds == {"u1", "google_u2"}
NoUserId == ""

\* Texts are sequences of characters, so that concatenation, emptiness and
\* truthiness are computed and not assumed.
EmptyText == <<>>
Contents == {EmptyText, <<"a">>, <<"b">>}

\* typeof content !== 'string' (content missing from the body)
NotAString == <<"undefined">>

\* string | null, as returned by getPersistentMemory
Null == [some |-> FALSE, val |-> EmptyText]
Some(v) == [some |-> TRUE, val |-> v]

\* JavaScript truthiness of a (string | null): null and '' are falsy.
Truthy(o) == o.some /\ o.val # EmptyText

\* userInfo of the request body ('' stands for an absent field)
UserInfos == {[email |-> "", name |-> ""], [email |-> "a@x", name |-> "Ann"]}

\* ---------------------------------------------------------------- variables

VARIABLES
    dbEnabled,          \* getDatabase() returned a connection (DATABASE_URL set)
    users,              \* table users: set of rows
    persistentMemory,   \* table user_persistent_memory: a bag of rows
    memReq,             \* the persistent-memory request each process serves
    memHist,            \* the last two answered persistent-memory requests
    started,            \* number of requests started
    clock,              \* the time now() and new Date() read
    chatSessions,       \* table chat_sessions: set of rows
    chatMessages,       \* table chat_messages: set of rows
    nextId,             \* ids handed out so far (gen_random_uuid never repeats)
    chatReq,            \* the chat request each process serves
    hasApiKey,          \* OPENAI_API_KEY is configured
    toolExecutions,     \* table tool_executions: set of rows
    memoryEmbeddings,   \* table memory_embeddings: set of rows
    toolCall,           \* the recordToolExecution or storeMemory call in progress
    svcCall,            \* the other service call in progress
    apps,               \* table apps: set of rows
    appReq,             \* the apps request being served
    planCall,           \* the parseStructuredPlan call: its text and result
    hook,               \* usePostgreSQLChatHistory: currentChatId and its storeMessage calls
    auth,               \* GoogleAuthService: authState, listeners, localStorage entry
    userSession             \* SessionService: the localStorage entry and the time

memVars == <<persistentMemory, memReq, memHist>>
chatVars == <<clock, chatSessions, chatMessages, nextId, chatReq>>

toolVars == <<hasApiKey, toolExecutions, memoryEmbeddings, toolCall>>
serviceVars == <<svcCall>>
appVars == <<apps, appReq>>
planVars == <<planCall>>
clientVars == <<hook, auth, userSession>>

vars == <<dbEnabled, users, started, memVars, chatVars, toolVars, serviceVars,
          appVars, planVars, clientVars>>

\* ------------------------------------------------------------------- users

UserRows(us, userId) == {r \in us : r.id = userId}

\* unique constraint on users.email (NULLs never collide)
EmailTaken(us, userId, email) ==
    email # "" /\ \E r \in us : r.id # userId /\ r.email = email

\* PersonalizationService.ensureUser with a working store: the users table
\* afterwards.  A statement that violates the unique email constraint throws,
\* is caught, and leaves the table as it was.
ensureUser(us, userId, email, name) ==
    IF UserRows(us, userId) # {}
    THEN IF email # "" \/ name # ""
         THEN IF EmailTaken(us, userId, email)
              THEN us
              ELSE {IF r.id = userId
                    THEN [r EXCEPT !.email = IF email # "" THEN email ELSE @,
                                   !.name = IF name # "" THEN name ELSE @]
                    ELSE r : r \in us}
         ELSE us
    ELSE IF EmailTaken(us, userId, email)
         THEN us
         ELSE us \cup {[id |-> userId, email |-> email, name |-> name,
                        isGoogleUser |-> (userId = "google_u2")]}

\* ------------------------------------------------------- persistent memory

\* the rows of one user, and how many there are (a row has its own uuid, so
\* equal rows are counted, not merged)
RowsOf(pm, userId) == {r \in BagToSet(pm) : r.userId = userId}

RowCount(pm, userId) ==
    BagCardinality([r \in RowsOf(pm, userId) |-> pm[r]])

ContentsOf(pm, userId) == {r.content : r \in RowsOf(pm, userId)}

\* db.delete(userPersistentMemory).where(eq(userId))
DeleteNothing(pm, userId) == pm
DeleteRows(pm, userId) == [r \in BagToSet(pm) \ RowsOf(pm, userId) |-> pm[r]]

\* db.insert(userPersistentMemory).values({userId, content})
InsertRow(pm, userId, content) ==
    pm (+) SetToBag({[userId |-> userId, content |-> content]})

\* getPersistentMemory: what one selected row is turned into
RowResultFalsy(content) == IF content # EmptyText THEN Some(content) ELSE Null
RowResult(content) == Some(content)

\* getPersistentMemory: select ... where userId limit 1 (no ORDER BY: with
\* several rows the store may return any of them); null when there is none
\* or when the query throws.
GetResults(pm, userId) ==
    IF RowsOf(pm, userId) = {}
    THEN {Null}
    ELSE {RowResult(r.content) : r \in RowsOf(pm, userId)}

\* the append branch: `${existingMemory}\n\n${content}` or content
Separator == <<"\n", "\n">>
AppendNoSeparator(existing, content) ==
    IF Truthy(existing) THEN existing.val \o content ELSE content
updatedMemory(existing, content) ==
    IF Truthy(existing) THEN existing.val \o Separator \o content ELSE content

\* ------------------------------------------- persistent-memory request handler

\* A request in flight.  arg is the content of the request body, content the
\* text setPersistentMemory is called with, prev the user's rows when
\* setPersistentMemory was entered, fault the statement that threw (if any).
MemIdle ==
    [pc |-> "idle", action |-> "", userId |-> NoUserId, arg |-> EmptyText,
     content |-> EmptyText, userInfo |-> [email |-> "", name |-> ""],
     status |-> 0, result |-> Null, prev |-> {}, fault |-> "none"]

MemActions == {"get", "set", "append", "clear"}

\* The request is parsed and validated up to the first await.
MemStart(p, userId, action, content, userInfo, bound) ==
    /\ memReq[p].pc = "idle"
    /\ started < bound
    /\ started' = started + 1
    /\ memReq' = [memReq EXCEPT ![p] =
          IF userId = NoUserId
          THEN [MemIdle EXCEPT !.pc = "done", !.action = action, !.status = 400]
          ELSE IF ~dbEnabled
          THEN [MemIdle EXCEPT !.pc = "done", !.action = action,
                               !.userId = userId, !.status = 503]
          ELSE [MemIdle EXCEPT !.pc = "ensure", !.action = action,
                               !.userId = userId, !.arg = content,
                               !.content = content, !.userInfo = userInfo]]
    /\ UNCHANGED <<serviceVars, appVars, planVars, clientVars, toolVars, chatVars, dbEnabled, users, persistentMemory, memHist>>

\* after ensureUser: the dispatch on action and the typeof content check
MemDispatch(r) ==
    IF r.action = "get" THEN [r EXCEPT !.pc = "get"]
    ELSE IF r.action \in {"set", "append"}
    THEN IF r.content = NotAString
         THEN [r EXCEPT !.pc = "done", !.status = 400]
         ELSE [r EXCEPT !.pc = IF r.action = "set" THEN "delete" ELSE "read"]
    ELSE [r EXCEPT !.pc = "done", !.status = 400]

\* await personalizationService.ensureUser(userId, email, name); its result
\* is not looked at, a failure is only logged
MemEnsureUser(p) ==
    /\ memReq[p].pc = "ensure"
    /\ \/ /\ users' = ensureUser(users, memReq[p].userId,
                                 memReq[p].userInfo.email, memReq[p].userInfo.name)
          /\ memReq' = [memReq EXCEPT ![p] =
                MemDispatch([memReq[p] EXCEPT !.userInfo = MemIdle.userInfo,
                    !.fault = IF UserRows(users', memReq[p].userId) = {}
                              THEN "ensure" ELSE @])]
       \/ /\ users' = users
          /\ memReq' = [memReq EXCEPT ![p] =
                MemDispatch([memReq[p] EXCEPT !.userInfo = MemIdle.userInfo,
                                              !.fault = "ensure"])]
    /\ UNCHANGED <<serviceVars, appVars, planVars, clientVars, toolVars, chatVars, dbEnabled, persistentMemory, memHist, started>>

\* action 'get': getPersistentMemory, answered {content}
MemGet(p) ==
    /\ memReq[p].pc = "get"
    /\ \/ \E res \in GetResults(persistentMemory, memReq[p].userId) :
            memReq' = [memReq EXCEPT ![p].pc = "done", ![p].status = 200,
                                     ![p].result = res]
       \/ memReq' = [memReq EXCEPT ![p].pc = "done", ![p].status = 200,
                                   ![p].result = Null, ![p].fault = "get"]
    /\ UNCHANGED <<serviceVars, appVars, planVars, clientVars, toolVars, chatVars, dbEnabled, users, persistentMemory, memHist, started>>

\* action 'append': read the existing memory and build the new text
MemRead(p) ==
    /\ memReq[p].pc = "read"
    /\ \/ \E res \in GetResults(persistentMemory, memReq[p].userId) :
            memReq' = [memReq EXCEPT ![p].pc = "delete",
                          ![p].content = updatedMemory(res, memReq[p].content)]
       \/ memReq' = [memReq EXCEPT ![p].pc = "delete", ![p].fault = "read",
                          ![p].content = updatedMemory(Null, memReq[p].content)]
    /\ UNCHANGED <<serviceVars, appVars, planVars, clientVars, toolVars, chatVars, dbEnabled, users, persistentMemory, memHist, started>>

\* setPersistentMemory, first statement: delete the user's rows.  A throw
\* is caught by setPersistentMemory and the handler answers success.
setPersistentMemoryDelete(p) ==
    /\ memReq[p].pc = "delete"
    /\ \/ /\ persistentMemory' = DeleteRows(persistentMemory, memReq[p].userId)
          /\ memReq' = [memReq EXCEPT ![p].pc = "insert",
                           ![p].prev = ContentsOf(persistentMemory, memReq[p].userId)]
       \/ /\ persistentMemory' = persistentMemory
          /\ memReq' = [memReq EXCEPT ![p].pc = "done", ![p].status = 200,
                           ![p].fault = "delete",
                           ![p].prev = ContentsOf(persistentMemory, memReq[p].userId)]
    /\ UNCHANGED <<serviceVars, appVars, planVars, clientVars, toolVars, chatVars, dbEnabled, users, memHist, started>>

\* setPersistentMemory, second statement: insert the new row.  The insert
\* throws when the user row is missing (foreign key) or the store fails.
setPersistentMemoryInsert(p) ==
    /\ memReq[p].pc = "insert"
    /\ \/ /\ UserRows(users, memReq[p].userId) # {}
          /\ persistentMemory' =
                InsertRow(persistentMemory, memReq[p].userId, memReq[p].content)
          /\ memReq' = [memReq EXCEPT ![p].pc = "done", ![p].status = 200]
       \/ /\ persistentMemory' = persistentMemory
          /\ memReq' = [memReq EXCEPT ![p].pc = "done", ![p].status = 200,
                                      ![p].fault = "insert"]
    /\ UNCHANGED <<serviceVars, appVars, planVars, clientVars, toolVars, chatVars, dbEnabled, users, memHist, started>>

\* What the history keeps of an answered request: a set or append that was
\* answered 200 with no statement failing, or the fact that something else
\* was answered.
Last2(h) == IF Len(h) > 2 THEN SubSeq(h, Len(h) - 1, Len(h)) ELSE h

OtherRequest == [action |-> "other", userId |-> NoUserId, arg |-> EmptyText]

HistEntry(r) ==
    IF r.action \in {"set", "append"} /\ r.status = 200 /\ r.fault = "none"
    THEN [action |-> r.action, userId |-> r.userId, arg |-> r.arg]
    ELSE OtherRequest

\* The response is sent.
MemReturn(p, keep) ==
    /\ memReq[p].pc = "done"
    /\ memHist' = IF keep THEN Last2(Append(memHist, HistEntry(memReq[p]))) ELSE memHist
    /\ memReq' = [memReq EXCEPT ![p] = MemIdle]
    /\ UNCHANGED <<serviceVars, appVars, planVars, clientVars, toolVars, chatVars, dbEnabled, users, persistentMemory, started>>

MemStep(p, sequential) ==
    \/ \E u \in UserIds \cup {NoUserId}, a \in MemActions,
          c \in Contents \cup {NotAString}, i \in UserInfos :
          MemStart(p, u, a, IF a \in {"set", "append"} THEN c ELSE NotAString, i,
                   IF sequential THEN MaxRequests ELSE MaxOverlapping)
    \/ MemEnsureUser(p)
    \/ MemGet(p)
    \/ MemRead(p)
    \/ setPersistentMemoryDelete(p)
    \/ setPersistentMemoryInsert(p)
    \/ MemReturn(p, sequential)

\* ------------------------------------------------------------ chat: values

ChatRoles == {"user", "assistant"}

\* message texts ('' is a body without content), with leading white space
ChatTexts == {<<" ", "y", "o">>}

\* the title of a create or rename request ('' is a body without title)
ChatTitles == {<<"T">>}

\* an id that no row has
NoId == 0

NoSession ==
    [id |-> NoId, userId |-> NoUserId, title |-> Null, updatedAt |-> 0,
     lastMessageAt |-> 0]

\* ChatSession | null
NullSession == [some |-> FALSE, val |-> NoSession]

\* ----------------------------------------- chat: PersonalizationService

\* createChatSession: the row inserted by values({userId, title: title || null});
\* updatedAt and lastMessageAt default to now()
NewSession(id, userId, title, now) ==
    [id |-> id, userId |-> userId,
     title |-> IF title # EmptyText THEN Some(title) ELSE Null,
     updatedAt |-> now, lastMessageAt |-> now]

\* getChatSession: select where id = chatSessionId and userId = userId limit 1
getChatSessionAnyOwner(sessions, userId, chatSessionId) ==
    IF \E s \in sessions : s.id = chatSessionId
    THEN [some |-> TRUE, val |-> CHOOSE s \in sessions : s.id = chatSessionId]
    ELSE NullSession
getChatSession(sessions, userId, chatSessionId) ==
    IF \E s \in sessions : s.id = chatSessionId /\ s.userId = userId
    THEN [some |-> TRUE,
          val |-> CHOOSE s \in sessions : s.id = chatSessionId /\ s.userId = userId]
    ELSE NullSession

\* updateChatSessionTitle: update set {title, updatedAt} where id and userId
updateChatSessionTitle(sessions, userId, chatSessionId, title, now) ==
    {IF s.id = chatSessionId /\ s.userId = userId
     THEN [s EXCEPT !.title = Some(title), !.updatedAt = now]
     ELSE s : s \in sessions}

\* deleteChatSession: delete where id and userId ...
deleteChatSession(sessions, userId, chatSessionId) ==
    {s \in sessions : ~(s.id = chatSessionId /\ s.userId = userId)}

\* ... and chat_messages.chat_session_id references it ON DELETE cascade
CascadeNothing(messages, sessions) == messages
CascadeMessages(messages, sessions) ==
    {m \in messages : \E s \in sessions : s.id = m.chatSessionId}

\* saveChatMessage, first statement: the row inserted; timestamp defaults to now()
NewMessage(id, chatSessionId, userId, role, content, now) ==
    [id |-> id, chatSessionId |-> chatSessionId, userId |-> userId,
     role |-> role, content |-> content, timestamp |-> now]

\* the foreign keys of chat_messages: the session and the user must exist
MessageKeysHold(sessions, us, chatSessionId, userId) ==
    /\ \E s \in sessions : s.id = chatSessionId
    /\ UserRows(us, userId) # {}

\* saveChatMessage, second statement: update set {lastMessageAt, updatedAt}
\* where id = chatSessionId
BumpNothing(sessions, chatSessionId, now) == sessions
BumpSession(sessions, chatSessionId, now) ==
    {IF s.id = chatSessionId
     THEN [s EXCEPT !.lastMessageAt = now, !.updatedAt = now]
     ELSE s : s \in sessions}

\* getChatMessages: select where chatSessionId and userId
getChatMessages(messages, userId, chatSessionId) ==
    {m \in messages : m.chatSessionId = chatSessionId /\ m.userId = userId}

\* order by timestamp asc: every order of the rows the store may return
\* (rows with equal timestamps come in any order)
OrderedByTimestamp(rows) ==
    {f \in [1..Cardinality(rows) -> rows] :
        /\ \A i, j \in 1..Cardinality(rows) : i # j => f[i] # f[j]
        /\ \A i, j \in 1..Cardinality(rows) : i < j => f[i].timestamp <= f[j].timestamp}

\* .limit(3)
TitleWindow == 3
FirstRows(f, n) == SubSeq(f, 1, IF Len(f) < n THEN Len(f) ELSE n)

\* String.prototype.trim on a text
IsSpace(c) == c = " "
RECURSIVE TrimStart(_)
TrimStart(t) == IF t # <<>> /\ IsSpace(Head(t)) THEN TrimStart(Tail(t)) ELSE t
RECURSIVE TrimEnd(_)
TrimEnd(t) ==
    IF t # <<>> /\ IsSpace(t[Len(t)]) THEN TrimEnd(SubSeq(t, 1, Len(t) - 1)) ELSE t
Trim(t) == TrimEnd(TrimStart(t))

\* generateChatTitle: content.trim().substring(0, 50), plus '...' when
\* content.length > 50
TitleLength == 50
Ellipsis == <<".", ".", ".">>
TitleOf(content) ==
    SubSeq(Trim(content), 1,
           IF Len(Trim(content)) < TitleLength THEN Len(Trim(content)) ELSE TitleLength)
    \o (IF Len(content) > TitleLength THEN Ellipsis ELSE <<>>)

\* generateChatTitle: the titles the call may derive; Null when the first
\* three rows hold no user message
GeneratedTitles(messages, userId, chatSessionId) ==
    {LET first == FirstRows(f, TitleWindow)
         users1 == {i \in 1..Len(first) : first[i].role = "user"}
     IN IF users1 = {}
        THEN Null
        ELSE Some(TitleOf(first[CHOOSE i \in users1 : \A j \in users1 : i <= j].content))
     : f \in OrderedByTimestamp(getChatMessages(messages, userId, chatSessionId))}

\* --------------------------------------------------- chat: request handlers

\* A chat request in flight.  session is what getChatSession returned to the
\* handler, msg the id of the row saveChatMessage inserted, seen the rows
\* getChatMessages returned, owner whether userId owned the session when the
\* request arrived, valid whether the body carried every required field.
ChatIdle ==
    [op |-> "idle", pc |-> "idle", userId |-> NoUserId, sid |-> NoId,
     role |-> "", content |-> EmptyText, title |-> EmptyText, status |-> 0,
     session |-> NullSession, msg |-> NoId, seen |-> {}, owner |-> FALSE,
     valid |-> FALSE, fault |-> "none"]

Owns(sessions, userId, chatSessionId) ==
    \E s \in sessions : s.id = chatSessionId /\ s.userId = userId

\* the ids a request may name: a session's, or one that no session has
SessionIds == {s.id : s \in chatSessions} \cup {NoId}

\* a request answered before its first await: nothing of it is used again
Rejected(r, status) ==
    [ChatIdle EXCEPT !.op = r.op, !.pc = "done", !.status = status,
                     !.userId = r.userId, !.sid = r.sid,
                     !.owner = r.owner, !.valid = r.valid]

\* a request answered: what the response and the log hold of it
Answered(r, status) ==
    [ChatIdle EXCEPT !.op = r.op, !.pc = "done", !.status = status,
                     !.owner = r.owner, !.valid = r.valid,
                     !.userId = r.userId, !.sid = r.sid,
                     !.msg = r.msg, !.seen = r.seen, !.fault = r.fault,
                     !.session = IF r.op = "load" THEN r.session ELSE NullSession]

\* once answered, only the answer is kept
Settle(r) == IF r.pc = "done" THEN Answered(r, r.status) ELSE r

\* A request that arrives is served in the first free slot.
ChatBegin(p, r) ==
    /\ chatReq[p].pc = "idle"
    /\ \A q \in Procs : q < p => chatReq[q].pc # "idle"
    /\ started' = started + 1
    /\ chatReq' = [chatReq EXCEPT ![p] = r]
    /\ UNCHANGED <<serviceVars, appVars, planVars, clientVars, toolVars, memVars, dbEnabled, users, clock, chatSessions, chatMessages, nextId>>

\* the checks every chat handler makes before its first await
Gate(r, userId) ==
    IF ~dbEnabled THEN Rejected(r, 503)
    ELSE IF userId = NoUserId THEN Rejected(r, 401)
    ELSE r

\* POST /api/chats
CreateStart(p, userId, title) ==
    ChatBegin(p, Gate([ChatIdle EXCEPT !.op = "create", !.pc = "ensure",
                                       !.userId = userId, !.title = title], userId))

CreateEnsureUser(p) ==
    /\ chatReq[p].op = "create" /\ chatReq[p].pc = "ensure"
    /\ \/ users' = ensureUser(users, chatReq[p].userId, "", "")
       \/ users' = users
    /\ chatReq' = [chatReq EXCEPT ![p] = Settle([chatReq[p] EXCEPT !.pc = "insert"])]
    /\ UNCHANGED <<serviceVars, appVars, planVars, clientVars, toolVars, memVars, dbEnabled, started, clock, chatSessions, chatMessages, nextId>>

createChatSession(p) ==
    /\ chatReq[p].op = "create" /\ chatReq[p].pc = "insert"
    /\ \/ /\ UserRows(users, chatReq[p].userId) # {}
          /\ nextId' = nextId + 1
          /\ chatSessions' = chatSessions \cup
                {NewSession(nextId + 1, chatReq[p].userId, chatReq[p].title, clock)}
          /\ chatReq' = [chatReq EXCEPT ![p] = Settle([chatReq[p] EXCEPT !.pc = "done", !.status = 200,
                                        !.sid = nextId + 1])]
       \/ /\ UNCHANGED <<nextId, chatSessions>>
          /\ chatReq' = [chatReq EXCEPT ![p] = Settle([chatReq[p] EXCEPT !.pc = "done", !.status = 500,
                                        !.fault = "insert"])]
    /\ UNCHANGED <<serviceVars, appVars, planVars, clientVars, toolVars, memVars, dbEnabled, users, started, clock, chatMessages>>

\* GET /api/chats/:id
LoadStart(p, userId, sid) ==
    ChatBegin(p, Gate([ChatIdle EXCEPT !.op = "load", !.pc = "check",
                          !.userId = userId, !.sid = sid,
                          !.owner = Owns(chatSessions, userId, sid)], userId))

\* PUT /api/chats/:id
EditStart(p, userId, sid, action, title) ==
    ChatBegin(p,
        LET r == Gate([ChatIdle EXCEPT !.op = action, !.pc = action,
                          !.userId = userId, !.sid = sid, !.title = title,
                          !.owner = Owns(chatSessions, userId, sid)], userId)
        IN IF r.pc = "updateTitle" /\ title = EmptyText
           THEN Rejected(r, 400)
           ELSE r)

EditDelete(p) ==
    /\ chatReq[p].pc = "delete"
    /\ \/ /\ chatSessions' =
                deleteChatSession(chatSessions, chatReq[p].userId, chatReq[p].sid)
          /\ chatMessages' = CascadeMessages(chatMessages, chatSessions')
          /\ chatReq' = [chatReq EXCEPT ![p] = Settle([chatReq[p] EXCEPT !.pc = "done", !.status = 200])]
       \/ /\ UNCHANGED <<chatSessions, chatMessages>>
          /\ chatReq' = [chatReq EXCEPT ![p] = Settle([chatReq[p] EXCEPT !.pc = "done", !.status = 500,
                                        !.fault = "delete"])]
    /\ UNCHANGED <<serviceVars, appVars, planVars, clientVars, toolVars, memVars, dbEnabled, users, started, clock, nextId>>

EditTitle(p) ==
    /\ chatReq[p].pc = "updateTitle"
    /\ \/ /\ chatSessions' = updateChatSessionTitle(chatSessions, chatReq[p].userId,
                                 chatReq[p].sid, chatReq[p].title, clock)
          /\ chatReq' = [chatReq EXCEPT ![p] = Settle([chatReq[p] EXCEPT !.pc = "done", !.status = 200])]
       \/ /\ UNCHANGED chatSessions
          /\ chatReq' = [chatReq EXCEPT ![p] = Settle([chatReq[p] EXCEPT !.pc = "done", !.status = 500,
                                        !.fault = "update"])]
    /\ UNCHANGED <<serviceVars, appVars, planVars, clientVars, toolVars, memVars, dbEnabled, users, started, clock, chatMessages, nextId>>

\* POST /api/chats/:id/messages: the checks before the first await
\* (401 without userId, 400 without role, content or messageIndex)
AppendStart(p, userId, sid, role, content, hasIndex) ==
    ChatBegin(p,
        LET r == Gate([ChatIdle EXCEPT !.op = "append", !.pc = "check",
                          !.userId = userId, !.sid = sid, !.role = role,
                          !.content = content,
                          !.valid = (userId # NoUserId /\ role # ""
                                     /\ content # EmptyText /\ hasIndex),
                          !.owner = Owns(chatSessions, userId, sid)], userId)
        IN IF r.pc = "check" /\ (role = "" \/ content = EmptyText \/ ~hasIndex)
           THEN Rejected(r, 400)
           ELSE r)

\* if (!chatSession) return 404
SessionMissingNever(session) == FALSE
SessionMissing(session) == ~session.some

\* the loader's and the append handler's getChatSession; a throw inside it
\* is caught and null is returned
CheckSession(p) ==
    /\ chatReq[p].pc = "check"
    /\ \E res \in {getChatSession(chatSessions, chatReq[p].userId, chatReq[p].sid),
                   NullSession} :
          chatReq' = [chatReq EXCEPT ![p] = Settle([chatReq[p] EXCEPT !.session = res,
                        !.pc = IF SessionMissing(res) THEN "done"
                                  ELSE IF chatReq[p].op = "load" THEN "messages"
                                  ELSE "save",
                        !.status = IF SessionMissing(res) THEN 404 ELSE 0])]
    /\ UNCHANGED <<serviceVars, appVars, planVars, clientVars, toolVars, memVars, dbEnabled, users, started, clock, chatSessions,
                   chatMessages, nextId>>

\* the loader's getChatMessages; a throw inside it is caught and [] returned
LoadMessages(p) ==
    /\ chatReq[p].pc = "messages"
    /\ \E rows \in {getChatMessages(chatMessages, chatReq[p].userId, chatReq[p].sid), {}} :
          chatReq' = [chatReq EXCEPT ![p] = Settle([chatReq[p] EXCEPT !.seen = rows, !.pc = "done",
                                     !.status = 200])]
    /\ UNCHANGED <<serviceVars, appVars, planVars, clientVars, toolVars, memVars, dbEnabled, users, started, clock, chatSessions,
                   chatMessages, nextId>>

\* saveChatMessage, first statement: insert the message.  A throw (a
\* foreign key, the store) is caught, null is returned and the handler
\* answers 500.
saveChatMessageInsert(p) ==
    /\ chatReq[p].pc = "save"
    /\ \/ /\ MessageKeysHold(chatSessions, users, chatReq[p].sid, chatReq[p].userId)
          /\ nextId' = nextId + 1
          /\ chatMessages' = chatMessages \cup
                {NewMessage(nextId + 1, chatReq[p].sid, chatReq[p].userId,
                            chatReq[p].role, chatReq[p].content, clock)}
          /\ chatReq' = [chatReq EXCEPT ![p] = Settle([chatReq[p] EXCEPT !.pc = "bump", !.msg = nextId + 1])]
       \/ /\ UNCHANGED <<nextId, chatMessages>>
          /\ chatReq' = [chatReq EXCEPT ![p] = Settle([chatReq[p] EXCEPT !.pc = "done", !.status = 500,
                                        !.fault = "insert"])]
    /\ UNCHANGED <<serviceVars, appVars, planVars, clientVars, toolVars, memVars, dbEnabled, users, started, clock, chatSessions>>

\* saveChatMessage, second statement: bump the session.  A throw is caught,
\* null is returned and the handler answers 500.  Otherwise the handler
\* goes on to the title when the role is user and the session it read had
\* none.
saveChatMessageUpdate(p) ==
    /\ chatReq[p].pc = "bump"
    /\ \/ /\ chatSessions' = BumpSession(chatSessions, chatReq[p].sid, clock)
          /\ chatReq' = [chatReq EXCEPT
                ![p].pc = IF chatReq[p].role = "user"
                             /\ ~Truthy(chatReq[p].session.val.title)
                          THEN "title" ELSE "done",
                ![p].status = 200]
       \/ /\ UNCHANGED chatSessions
          /\ chatReq' = [chatReq EXCEPT ![p] = Settle([chatReq[p] EXCEPT !.pc = "done", !.status = 500,
                                        !.fault = "update"])]
    /\ UNCHANGED <<serviceVars, appVars, planVars, clientVars, toolVars, memVars, dbEnabled, users, started, clock, chatMessages, nextId>>

\* generateChatTitle, first statement: read the first three messages and
\* derive the title; nothing is written when there is none or the read throws
generateChatTitleRead(p) ==
    /\ chatReq[p].pc = "title"
    /\ \E t \in GeneratedTitles(chatMessages, chatReq[p].userId, chatReq[p].sid)
                \cup {Null} :
          chatReq' = [chatReq EXCEPT ![p] = Settle([chatReq[p] EXCEPT !.pc = IF t.some THEN "rename" ELSE "done",
                                     !.title = t.val])]
    /\ UNCHANGED <<serviceVars, appVars, planVars, clientVars, toolVars, memVars, dbEnabled, users, started, clock, chatSessions,
                   chatMessages, nextId>>

\* generateChatTitle, second statement: updateChatSessionTitle (which
\* catches a throw itself)
generateChatTitleWrite(p) ==
    /\ chatReq[p].pc = "rename"
    /\ \/ chatSessions' = updateChatSessionTitle(chatSessions, chatReq[p].userId,
                              chatReq[p].sid, chatReq[p].title, clock)
       \/ UNCHANGED chatSessions
    /\ chatReq' = [chatReq EXCEPT ![p] = Settle([chatReq[p] EXCEPT !.pc = "done"])]
    /\ UNCHANGED <<serviceVars, appVars, planVars, clientVars, toolVars, memVars, dbEnabled, users, started, clock, chatMessages, nextId>>

\* The response is sent.
ChatReturn(p) ==
    /\ chatReq[p].pc = "done"
    /\ chatReq' = [chatReq EXCEPT ![p] = ChatIdle]
    /\ UNCHANGED <<serviceVars, appVars, planVars, clientVars, toolVars, memVars, dbEnabled, users, started, clock, chatSessions,
                   chatMessages, nextId>>

\* Time passes.
Tick ==
    /\ clock < MaxClock
    /\ clock' = clock + 1
    /\ UNCHANGED <<serviceVars, appVars, planVars, clientVars, toolVars, memVars, dbEnabled, users, started, chatSessions, chatMessages,
                   nextId, chatReq>>

\* the malformed bodies: no role, no content, no messageIndex
AppendBodies ==
    {<<r, c, TRUE>> : r \in ChatRoles, c \in ChatTexts}
    \cup {<<"", c, TRUE>> : c \in ChatTexts}
    \cup {<<r, EmptyText, TRUE>> : r \in ChatRoles}
    \cup {<<r, c, FALSE>> : r \in ChatRoles, c \in ChatTexts}

\* a request arrives
ChatArrive(p) ==
    \/ \E u \in UserIds \cup {NoUserId}, t \in ChatTitles \cup {EmptyText} :
          CreateStart(p, u, t)
    \/ \E u \in UserIds \cup {NoUserId}, sid \in SessionIds : LoadStart(p, u, sid)
    \/ \E u \in UserIds \cup {NoUserId}, sid \in SessionIds,
          a \in {"delete", "updateTitle"}, t \in ChatTitles \cup {EmptyText} :
          EditStart(p, u, sid, a, t)
    \/ \E u \in UserIds \cup {NoUserId}, sid \in SessionIds, b \in AppendBodies :
          AppendStart(p, u, sid, b[1], b[2], b[3])

\* a request in flight takes its next step
ChatProgress(p) ==
    \/ CreateEnsureUser(p)
    \/ createChatSession(p)
    \/ EditDelete(p)
    \/ EditTitle(p)
    \/ CheckSession(p)
    \/ LoadMessages(p)
    \/ saveChatMessageInsert(p)
    \/ saveChatMessageUpdate(p)
    \/ generateChatTitleRead(p)
    \/ generateChatTitleWrite(p)
    \/ ChatReturn(p)

\* Overlapping chat requests.
ChatNext ==
    \/ Tick
    \/ \E p \in Procs : (started < MaxChatOverlapping /\ ChatArrive(p)) \/ ChatProgress(p)

\* Chat requests served one at a time.
ChatSeqNext ==
    \/ Tick
    \/ (started < MaxChatRequests /\ ChatArrive(1))
    \/ ChatProgress(1)

\* Overlapping create, append and delete requests.
DeleteNext ==
    \/ \E p \in Procs, u \in UserIds :
          started < MaxDeleteRequests /\ CreateStart(p, u, EmptyText)
    \/ \E p \in Procs, u \in UserIds, sid \in SessionIds, c \in ChatTexts :
          started < MaxDeleteRequests /\ AppendStart(p, u, sid, "assistant", c, TRUE)
    \/ \E p \in Procs, u \in UserIds, sid \in SessionIds :
          started < MaxDeleteRequests /\ EditStart(p, u, sid, "delete", EmptyText)
    \/ \E p \in Procs :
          \/ CreateEnsureUser(p)
          \/ createChatSession(p)
          \/ EditDelete(p)
          \/ CheckSession(p)
          \/ saveChatMessageInsert(p)
          \/ saveChatMessageUpdate(p)
          \/ ChatReturn(p)

\* the message texts of the title specification: white space only, short,
\* one character longer than a title, and short but padded with white space
\* to that length
Spaces(n) == [i \in 1..n |-> " "]
TitleTexts ==
    {<<" ">>,
     <<"h", "i">>,
     [i \in 1..(TitleLength + 1) |-> "x"],
     <<"h", "i">> \o Spaces(TitleLength - 1)}

\* Create, append and rename requests served one at a time.
TitleNext ==
    \/ Tick
    \/ \E u \in UserIds : started < MaxTitleRequests /\ CreateStart(1, u, EmptyText)
    \/ \E u \in UserIds, sid \in SessionIds, r \in ChatRoles, c \in TitleTexts :
          started < MaxTitleRequests /\ AppendStart(1, u, sid, r, c, TRUE)
    \/ \E u \in UserIds, sid \in SessionIds, t \in ChatTitles :
          started < MaxTitleRequests /\ EditStart(1, u, sid, "updateTitle", t)
    \/ CreateEnsureUser(1)
    \/ createChatSession(1)
    \/ EditTitle(1)
    \/ CheckSession(1)
    \/ saveChatMessageInsert(1)
    \/ saveChatMessageUpdate(1)
    \/ generateChatTitleRead(1)
    \/ generateChatTitleWrite(1)
    \/ ChatReturn(1)

\* ------------------------------------------------- tool executions, memories

ToolNames == {"create_file", "run_tests"}

\* JSON.stringify(args) of the one argument object the model passes
ArgsJson == "{\"path\":\"a.txt\"}"

\* success ? 'success' : 'error'
SuccessText(success) == IF success THEN "success" ELSE "error"

\* `Used ${toolName} with args: ${JSON.stringify(args)}. Result: ${...}`
executionSummary(toolName, success) ==
    <<"Used ", toolName, " with args: ", ArgsJson, ". Result: ", SuccessText(success)>>

\* the row recordToolExecution inserts into tool_executions
ToolRow(id, userId, toolName, success) ==
    [id |-> id, userId |-> userId, toolName |-> toolName,
     success |-> SuccessText(success)]

\* the row storeMemory inserts into memory_embeddings
MemoryRow(id, userId, content, embedding, metadata) ==
    [id |-> id, userId |-> userId, content |-> content, embedding |-> embedding,
     metadata |-> metadata]

\* the texts storeMemory is called with directly
MemoryTexts == {<<"m">>, <<"n">>}

\* the texts searchMemories is called with
Queries == {<<"m">>, <<"n">>, <<"q">>}

\* the vector the embedding API answers with for a text
EmbeddingOf(text) ==
    IF text = <<"m">> THEN 0 ELSE IF text = <<"n">> THEN 1 ELSE 2

\* metadata?: any, left out by the caller
NoMetadata == [type |-> "", toolName |-> "", success |-> FALSE]

\* { type: 'tool_execution', toolName, success }
ToolMetadata(toolName, success) ==
    [type |-> "tool_execution", toolName |-> toolName, success |-> success]

\* What leaves a method when a statement inside its try block throws:
\* both catch blocks log the error and return.
NoError == "none"
storeMemoryRethrow(error) == error
storeMemoryCatch(error) == NoError
recordToolExecutionRethrow(error) == error
recordToolExecutionCatch(error) == NoError

\* A recordToolExecution or storeMemory call (op).  row is the id of the
\* tool_executions row the call inserted, attempts the number of storeMemory
\* calls made, embedCalls the number of createEmbedding calls made, raised
\* what the call threw to its caller, toolsBefore and memoriesBefore the
\* tables when it was entered.
ToolIdle ==
    [op |-> "", pc |-> "idle", userId |-> NoUserId, toolName |-> "",
     success |-> FALSE, content |-> <<>>, metadata |-> NoMetadata,
     embedding |-> 0, row |-> NoId, attempts |-> 0, embedCalls |-> 0,
     fault |-> "none", raised |-> NoError,
     toolsBefore |-> {}, memoriesBefore |-> {}]

\* what reaches the caller of the call in progress when storeMemory has
\* caught error: storeMemory was called directly, or inside the try block
\* of recordToolExecution
Raised(call, error) ==
    IF call.op = "storeMemory"
    THEN storeMemoryCatch(error)
    ELSE recordToolExecutionCatch(storeMemoryCatch(error))

\* ensureUser called on the service: the user rows the other calls refer to
ToolEnsureUser(userId) ==
    /\ dbEnabled
    /\ toolCall.pc = "idle"
    /\ svcCall.pc = "idle"
    /\ users' = ensureUser(users, userId, "", "")
    /\ users' # users
    /\ UNCHANGED <<serviceVars, appVars, planVars, clientVars, memVars, chatVars, dbEnabled, started, hasApiKey, toolExecutions,
                   memoryEmbeddings, toolCall>>

\* if (!this.db) return ...: where a call goes from its first line
EntryUnguarded(enabled, pc) == pc
Entry(enabled, pc) == IF enabled THEN pc ELSE "done"

\* recordToolExecution is entered: if (!this.db) return
recordToolExecutionStart(userId, toolName, success) ==
    /\ toolCall.pc = "idle"
    /\ svcCall.pc = "idle"
    /\ started' = started + 1
    /\ toolCall' = [ToolIdle EXCEPT !.op = "recordToolExecution",
                                    !.pc = Entry(dbEnabled, "insert"),
                                    !.userId = userId, !.toolName = toolName,
                                    !.success = success,
                                    !.toolsBefore = toolExecutions,
                                    !.memoriesBefore = memoryEmbeddings]
    /\ UNCHANGED <<serviceVars, appVars, planVars, clientVars, memVars, chatVars, dbEnabled, users, hasApiKey, toolExecutions,
                   memoryEmbeddings>>

\* await db.insert(toolExecutions): the audit row.  A throw (the user row
\* is missing, the store fails) goes to recordToolExecution's catch.
recordToolExecutionInsert ==
    /\ toolCall.pc = "insert"
    /\ \/ /\ UserRows(users, toolCall.userId) # {}
          /\ nextId' = nextId + 1
          /\ toolExecutions' = toolExecutions \cup
                {ToolRow(nextId + 1, toolCall.userId, toolCall.toolName,
                         toolCall.success)}
          /\ toolCall' = [toolCall EXCEPT !.pc = "embed", !.row = nextId + 1,
                !.content = executionSummary(toolCall.toolName, toolCall.success),
                !.metadata = ToolMetadata(toolCall.toolName, toolCall.success)]
       \/ /\ UNCHANGED <<nextId, toolExecutions>>
          /\ toolCall' = [toolCall EXCEPT !.pc = "done", !.fault = "audit",
                             !.raised = recordToolExecutionCatch("audit")]
    /\ UNCHANGED <<serviceVars, appVars, planVars, clientVars, memVars, dbEnabled, users, started, clock, chatSessions,
                   chatMessages, chatReq, hasApiKey, memoryEmbeddings>>

\* storeMemory is called by a caller of the service:
\* if (!this.db) { logger.warn(...); return }
storeMemoryStart(userId, content) ==
    /\ toolCall.pc = "idle"
    /\ svcCall.pc = "idle"
    /\ started' = started + 1
    /\ toolCall' = [ToolIdle EXCEPT !.op = "storeMemory",
                                    !.pc = Entry(dbEnabled, "embed"),
                                    !.userId = userId, !.content = content,
                                    !.toolsBefore = toolExecutions,
                                    !.memoriesBefore = memoryEmbeddings]
    /\ UNCHANGED <<serviceVars, appVars, planVars, clientVars, memVars, chatVars, dbEnabled,
                   users, hasApiKey, toolExecutions, memoryEmbeddings>>

\* storeMemory: await createEmbedding(content).  It throws when no API key
\* is configured or the embedding API fails; storeMemory catches it.
storeMemoryEmbed ==
    /\ toolCall.pc = "embed"
    /\ \/ /\ hasApiKey
          /\ toolCall' = [toolCall EXCEPT !.pc = "store",
                                !.embedding = EmbeddingOf(toolCall.content),
                                !.attempts = @ + 1, !.embedCalls = @ + 1]
       \/ toolCall' = [toolCall EXCEPT !.pc = "done", !.fault = "embed",
             !.attempts = @ + 1, !.embedCalls = @ + 1,
             !.raised = Raised(toolCall, "embed")]
    /\ UNCHANGED <<serviceVars, appVars, planVars, clientVars, memVars, chatVars, dbEnabled,
                   users, started, hasApiKey, toolExecutions, memoryEmbeddings>>

\* storeMemory: await db.insert(memoryEmbeddings); a throw (the user row is
\* missing, the store fails) is caught
storeMemoryInsert ==
    /\ toolCall.pc = "store"
    /\ \/ /\ UserRows(users, toolCall.userId) # {}
          /\ nextId' = nextId + 1
          /\ memoryEmbeddings' = memoryEmbeddings \cup
                {MemoryRow(nextId + 1, toolCall.userId, toolCall.content,
                           toolCall.embedding, toolCall.metadata)}
          /\ toolCall' = [toolCall EXCEPT !.pc = "done"]
       \/ /\ UNCHANGED <<nextId, memoryEmbeddings>>
          /\ toolCall' = [toolCall EXCEPT !.pc = "done", !.fault = "store",
                !.raised = Raised(toolCall, "store")]
    /\ UNCHANGED <<serviceVars, appVars, planVars, clientVars, memVars, dbEnabled, users,
                   started, clock, chatSessions, chatMessages, chatReq, hasApiKey,
                   toolExecutions>>

\* recordToolExecution has returned (or thrown) to its caller
recordToolExecutionReturn ==
    /\ toolCall.pc = "done"
    /\ toolCall' = ToolIdle
    /\ UNCHANGED <<serviceVars, appVars, planVars, clientVars, memVars, chatVars, dbEnabled, users, started, hasApiKey,
                   toolExecutions, memoryEmbeddings>>

ToolNext ==
    \/ \E u \in UserIds : ToolEnsureUser(u)
    \/ \E u \in UserIds, t \in ToolNames, ok \in BOOLEAN :
          started < MaxToolCalls /\ recordToolExecutionStart(u, t, ok)
    \/ \E u \in UserIds, c \in MemoryTexts :
          started < MaxToolCalls /\ storeMemoryStart(u, c)
    \/ recordToolExecutionInsert
    \/ storeMemoryEmbed
    \/ storeMemoryInsert
    \/ recordToolExecutionReturn

\* ------------------------------------------------------ service calls

\* limit: number = 5; getPersonalizedContext passes 3
DefaultLimit == 5
ContextLimit == 3
SearchLimits == {1, ContextLimit, DefaultLimit}

\* 1 - (embedding <=> queryVector), in hundredths: equal vectors, vectors
\* at cosine similarity 0.7 exactly, and vectors pointing apart
Similarity(embedding, queryVector) ==
    IF embedding = queryVector THEN 100
    ELSE IF embedding - queryVector \in {1, -1} THEN 70
    ELSE -40

\* result.similarity || 0
OrZero(similarity) == IF similarity = 0 THEN 0 ELSE similarity

\* .filter(m => m.similarity > 0.7), in hundredths
Threshold == 70
RelevantOrEqual(m) == m.similarity >= Threshold
Relevant(m) == m.similarity > Threshold

\* where userId = userId (no appId is passed)
MemoriesOf(memories, userId) == {r \in memories : r.userId = userId}

\* .orderBy(embedding <=> queryVector): the rows in every order the store
\* may return them, nearest first (rows at equal distance in any order)
NearestFirst(rows, queryVector) ==
    {f \in [1..Cardinality(rows) -> rows] :
        /\ \A i, j \in 1..Cardinality(rows) : i # j => f[i] # f[j]
        /\ \A i, j \in 1..Cardinality(rows) :
              i < j => Similarity(f[i].embedding, queryVector)
                        >= Similarity(f[j].embedding, queryVector)}

\* .limit(limit)
Limit(f, limit) == SubSeq(f, 1, IF Len(f) < limit THEN Len(f) ELSE limit)

\* .map(result => ({content, metadata, similarity: result.similarity || 0}))
SearchResult(row, queryVector) ==
    [content |-> row.content, metadata |-> row.metadata,
     similarity |-> OrZero(Similarity(row.embedding, queryVector))]

MapResults(f, queryVector) == [i \in 1..Len(f) |-> SearchResult(f[i], queryVector)]

\* searchMemories, after the embedding: select, map, filter
searchMemoriesResults(memories, userId, queryVector, limit) ==
    {SelectSeq(MapResults(Limit(f, limit), queryVector), Relevant) :
        f \in NearestFirst(MemoriesOf(memories, userId), queryVector)}

\* the fixed pieces of the context text, each one element of the text
PersistentHeading == "## Persistent User Context\n"
RecentHeading == "## Recent Relevant Context\nBased on previous interactions:\n"
Bullet == "- "
NewLine == "\n"

\* `- ${memory.content} (similarity: ${memory.similarity.toFixed(2)})`
toFixed(similarity) ==
    CASE similarity = 100 -> "1.00"
      [] similarity = 70 -> "0.70"
      [] similarity = 0 -> "0.00"
      [] OTHER -> "-0.40"

contextPart(memory) ==
    <<Bullet>> \o memory.content
        \o <<" (similarity: ", toFixed(memory.similarity), ")">>

\* contextParts.join('\n')
RECURSIVE JoinLines(_)
JoinLines(parts) ==
    IF Len(parts) = 0 THEN <<>>
    ELSE IF Len(parts) = 1 THEN parts[1]
    ELSE parts[1] \o <<NewLine>> \o JoinLines(Tail(parts))

\* getPersonalizedContext: if (persistentMemory) context += ...
PersistentSectionUnchecked(persistent) ==
    <<PersistentHeading>> \o persistent.val \o <<NewLine, NewLine>>
PersistentSection(persistent) ==
    IF Truthy(persistent)
    THEN <<PersistentHeading>> \o persistent.val \o <<NewLine, NewLine>>
    ELSE <<>>

\* if (memories.length > 0) context += ...
RecentSection(memories) ==
    IF Len(memories) > 0
    THEN <<RecentHeading>>
            \o JoinLines([i \in 1..Len(memories) |-> contextPart(memories[i])])
            \o <<NewLine>>
    ELSE <<>>

\* return context ? `\n${context}\n` : ''
ContextRecentFirst(persistent, memories) ==
    IF RecentSection(memories) \o PersistentSection(persistent) # <<>>
    THEN <<NewLine>> \o RecentSection(memories) \o PersistentSection(persistent)
            \o <<NewLine>>
    ELSE <<>>
ContextText(persistent, memories) ==
    IF PersistentSection(persistent) \o RecentSection(memories) # <<>>
    THEN <<NewLine>> \o PersistentSection(persistent) \o RecentSection(memories)
            \o <<NewLine>>
    ELSE <<>>

\* A call of searchMemories, getPersonalizedContext, setPersistentMemory or
\* getPersistentMemory made on the service.  persistent is what
\* getPersistentMemory returned, results what searchMemories returned, text
\* what getPersonalizedContext returned, kind the kind of value returned,
\* embedCalls the number of createEmbedding calls made, raised what the call
\* threw to its caller.
ServiceIdle ==
    [op |-> "", pc |-> "idle", userId |-> NoUserId, content |-> <<>>,
     query |-> <<>>, queryVector |-> 0, limit |-> 0, persistent |-> Null,
     results |-> <<>>, text |-> <<>>, kind |-> "", embedCalls |-> 0,
     fault |-> "none", raised |-> NoError,
     sid |-> NoId, role |-> "", email |-> "", name |-> "", rows |-> {},
     before |-> {}]

ServiceBegin(call) ==
    /\ svcCall.pc = "idle"
    /\ toolCall.pc = "idle"
    /\ started' = started + 1
    /\ svcCall' = call

\* what the awaited statements of a service call leave alone
ServiceFrame ==
    UNCHANGED <<appVars, planVars, clientVars, memVars, chatVars, toolVars, dbEnabled, users>>

\* the text a call returns once searchMemories has returned memories
Returned(call, memories) ==
    IF call.op = "getPersonalizedContext"
    THEN ContextText(call.persistent, memories)
    ELSE <<>>

\* searchMemories(userId, query, appId?, limit): if (!this.db) return []
searchMemoriesStart(userId, query, limit) ==
    /\ ServiceBegin([ServiceIdle EXCEPT !.op = "searchMemories",
                        !.pc = Entry(dbEnabled, "embed"),
                        !.kind = "list", !.userId = userId, !.query = query,
                        !.limit = limit])
    /\ ServiceFrame

\* getPersonalizedContext(userId, query): with no store getPersistentMemory
\* returns null and searchMemories [] before any await
getPersonalizedContextStart(userId, query) ==
    /\ ServiceBegin([ServiceIdle EXCEPT !.op = "getPersonalizedContext",
                        !.pc = Entry(dbEnabled, "persistent"),
                        !.kind = "text", !.userId = userId, !.query = query,
                        !.limit = ContextLimit,
                        !.text = ContextText(Null, <<>>)])
    /\ ServiceFrame

\* getPersistentMemory(userId): if (!this.db) return null
getPersistentMemoryStart(userId) ==
    /\ ServiceBegin([ServiceIdle EXCEPT !.op = "getPersistentMemory",
                        !.pc = Entry(dbEnabled, "persistent"),
                        !.kind = "null", !.userId = userId])
    /\ ServiceFrame

\* getPersistentMemory: select ... limit 1; a throw is caught, null returned
getPersistentMemoryRead ==
    /\ svcCall.pc = "persistent"
    /\ \/ \E res \in GetResults(persistentMemory, svcCall.userId) :
             svcCall' = [svcCall EXCEPT
                !.persistent = res,
                !.kind = IF svcCall.op = "getPersistentMemory" /\ res.some
                         THEN "text" ELSE @,
                !.text = IF svcCall.op = "getPersistentMemory" /\ res.some
                         THEN res.val ELSE @,
                !.pc = IF svcCall.op = "getPersistentMemory"
                       THEN "done" ELSE "embed"]
       \/ svcCall' = [svcCall EXCEPT
                !.persistent = Null, !.fault = "persistent",
                !.pc = IF svcCall.op = "getPersistentMemory"
                       THEN "done" ELSE "embed"]
    /\ UNCHANGED started
    /\ ServiceFrame

\* searchMemories: await createEmbedding(query); a throw (no API key, the API
\* fails) is caught and [] returned
searchMemoriesEmbed ==
    /\ svcCall.pc = "embed"
    /\ \/ /\ hasApiKey
          /\ svcCall' = [svcCall EXCEPT !.pc = "select",
                                !.queryVector = EmbeddingOf(svcCall.query),
                                !.embedCalls = @ + 1]
       \/ svcCall' = [svcCall EXCEPT !.pc = "done", !.fault = "embed",
                         !.embedCalls = @ + 1,
                         !.text = Returned(svcCall, <<>>)]
    /\ UNCHANGED started
    /\ ServiceFrame

\* searchMemories: the select, then map and filter; a throw is caught and []
\* returned.  getPersonalizedContext builds its text from the result.
searchMemoriesSelect ==
    /\ svcCall.pc = "select"
    /\ \/ \E res \in searchMemoriesResults(memoryEmbeddings, svcCall.userId,
                                          svcCall.queryVector, svcCall.limit) :
             svcCall' = [svcCall EXCEPT !.pc = "done", !.results = res,
                            !.text = Returned(svcCall, res)]
       \/ svcCall' = [svcCall EXCEPT !.pc = "done", !.fault = "select",
                         !.text = Returned(svcCall, <<>>)]
    /\ UNCHANGED started
    /\ ServiceFrame

\* setPersistentMemory(userId, content): if (!this.db) return
setPersistentMemoryStart(userId, content) ==
    /\ ServiceBegin([ServiceIdle EXCEPT !.op = "setPersistentMemory",
                        !.pc = Entry(dbEnabled, "delete"),
                        !.kind = "void", !.userId = userId,
                        !.content = content])
    /\ ServiceFrame

\* setPersistentMemory called on the service: the delete, then the insert;
\* a throw of either is caught
setPersistentMemoryCall ==
    /\ \/ /\ svcCall.pc = "delete"
          /\ \/ /\ persistentMemory' = DeleteRows(persistentMemory, svcCall.userId)
                /\ svcCall' = [svcCall EXCEPT !.pc = "insert"]
             \/ /\ persistentMemory' = persistentMemory
                /\ svcCall' = [svcCall EXCEPT !.pc = "done", !.fault = "delete"]
       \/ /\ svcCall.pc = "insert"
          /\ \/ /\ UserRows(users, svcCall.userId) # {}
                /\ persistentMemory' =
                      InsertRow(persistentMemory, svcCall.userId, svcCall.content)
                /\ svcCall' = [svcCall EXCEPT !.pc = "done"]
             \/ /\ persistentMemory' = persistentMemory
                /\ svcCall' = [svcCall EXCEPT !.pc = "done", !.fault = "insert"]
    /\ UNCHANGED <<appVars, planVars, clientVars, chatVars, toolVars, dbEnabled, users,
                   started, memReq, memHist>>

\* the call returns to its caller
ServiceReturn ==
    /\ svcCall.pc = "done"
    /\ svcCall' = ServiceIdle
    /\ UNCHANGED started
    /\ ServiceFrame

\* the other methods of the service, called directly
OtherMethods ==
    {"ensureUser", "createApp", "getUserApps", "createChatSession",
     "getChatSessions", "getChatSession", "updateChatSessionTitle",
     "deleteChatSession", "saveChatMessage", "getChatMessages",
     "generateChatTitle"}

\* what each of them returns from its first line when there is no store
WithoutStore(op) ==
    CASE op \in {"getUserApps", "getChatSessions", "getChatMessages"} -> "list"
      [] op \in {"updateChatSessionTitle", "deleteChatSession"} -> "false"
      [] OTHER -> "null"

\* userInfo passed to ensureUser ('' stands for an absent argument)
ServiceUserInfos == UserInfos \cup {[email |-> "b@x", name |-> ""]}

\* the row createApp inserts
AppRow(id, userId, name) == [id |-> id, userId |-> userId, name |-> name]

\* getUserApps: select where userId
getUserApps(as, userId) == {r \in as : r.userId = userId}

\* getChatSessions: select where userId
getChatSessions(sessions, userId) == {r \in sessions : r.userId = userId}

\* one of the other methods is called: if (!this.db) return null / [] / false
ServiceCall(op, userId, info, sid, role, content) ==
    /\ ServiceBegin([ServiceIdle EXCEPT !.op = op, !.pc = Entry(dbEnabled, op),
                        !.kind = WithoutStore(op), !.userId = userId,
                        !.email = info.email, !.name = info.name,
                        !.sid = sid, !.role = role, !.content = content,
                        !.before = UserRows(users, userId)])
    /\ ServiceFrame

\* what a statement of a service call leaves alone besides the tables named
ServiceRest == UNCHANGED <<appReq, planVars, clientVars, memVars, toolVars, dbEnabled,
                           started, chatReq>>

\* a read: the call ends with rows (or with null when there is none), or the
\* select throws and the catch returns the method's empty value
ServiceRead(rows, found, none) ==
    /\ \/ svcCall' = [svcCall EXCEPT !.pc = "done", !.rows = rows,
                         !.kind = IF rows = {} THEN none ELSE found]
       \/ svcCall' = [svcCall EXCEPT !.pc = "done", !.fault = "select"]
    /\ ServiceRest
    /\ UNCHANGED <<users, apps, clock, nextId, chatSessions, chatMessages>>

\* ensureUser: select, then update or insert; a throw (the email belongs to
\* another user's row, or the store fails) is caught and null returned
ensureUserCall ==
    /\ svcCall.pc = "ensureUser"
    /\ \/ /\ users' = ensureUser(users, svcCall.userId, svcCall.email, svcCall.name)
          /\ ~EmailTaken(users, svcCall.userId, svcCall.email)
          /\ svcCall' = [svcCall EXCEPT !.pc = "done", !.kind = "row",
                            !.rows = UserRows(users', svcCall.userId)]
       \/ /\ users' = users
          /\ svcCall' = [svcCall EXCEPT !.pc = "done",
                !.fault = IF EmailTaken(users, svcCall.userId, svcCall.email)
                          THEN "unique" ELSE "store"]
    /\ ServiceRest
    /\ UNCHANGED <<apps, clock, nextId, chatSessions, chatMessages>>

\* createApp: insert(apps); a throw (no such user, the store fails) is caught
createAppCall ==
    /\ svcCall.pc = "createApp"
    /\ \/ /\ UserRows(users, svcCall.userId) # {}
          /\ nextId' = nextId + 1
          /\ apps' = apps \cup {AppRow(nextId + 1, svcCall.userId, "app")}
          /\ svcCall' = [svcCall EXCEPT !.pc = "done", !.kind = "row",
                            !.rows = {AppRow(nextId + 1, svcCall.userId, "app")}]
       \/ /\ UNCHANGED <<nextId, apps>>
          /\ svcCall' = [svcCall EXCEPT !.pc = "done", !.fault = "insert"]
    /\ ServiceRest
    /\ UNCHANGED <<users, clock, chatSessions, chatMessages>>

getUserAppsCall ==
    /\ svcCall.pc = "getUserApps"
    /\ ServiceRead(getUserApps(apps, svcCall.userId), "list", "list")

\* createChatSession called on the service
createChatSessionCall ==
    /\ svcCall.pc = "createChatSession"
    /\ \/ /\ UserRows(users, svcCall.userId) # {}
          /\ nextId' = nextId + 1
          /\ chatSessions' = chatSessions \cup
                {NewSession(nextId + 1, svcCall.userId, EmptyText, clock)}
          /\ svcCall' = [svcCall EXCEPT !.pc = "done", !.kind = "row",
                !.rows = {NewSession(nextId + 1, svcCall.userId, EmptyText, clock)}]
       \/ /\ UNCHANGED <<nextId, chatSessions>>
          /\ svcCall' = [svcCall EXCEPT !.pc = "done", !.fault = "insert"]
    /\ ServiceRest
    /\ UNCHANGED <<users, apps, clock, chatMessages>>

getChatSessionsCall ==
    /\ svcCall.pc = "getChatSessions"
    /\ ServiceRead(getChatSessions(chatSessions, svcCall.userId), "list", "list")

getChatSessionCall ==
    /\ svcCall.pc = "getChatSession"
    /\ ServiceRead({s \in chatSessions :
                      getChatSession(chatSessions, svcCall.userId, svcCall.sid)
                          = Some(s)},
                   "row", "null")

getChatMessagesCall ==
    /\ svcCall.pc = "getChatMessages"
    /\ ServiceRead(getChatMessages(chatMessages, svcCall.userId, svcCall.sid),
                   "list", "list")

\* updateChatSessionTitle and deleteChatSession called on the service: true
\* when the statement did not throw
updateChatSessionTitleCall ==
    /\ svcCall.pc = "updateChatSessionTitle"
    /\ \/ /\ chatSessions' = updateChatSessionTitle(chatSessions, svcCall.userId,
                                 svcCall.sid, svcCall.content, clock)
          /\ svcCall' = [svcCall EXCEPT !.pc = "done", !.kind = "true"]
       \/ /\ UNCHANGED chatSessions
          /\ svcCall' = [svcCall EXCEPT !.pc = "done", !.fault = "update"]
    /\ ServiceRest
    /\ UNCHANGED <<users, apps, clock, nextId, chatMessages>>

deleteChatSessionCall ==
    /\ svcCall.pc = "deleteChatSession"
    /\ \/ /\ chatSessions' = deleteChatSession(chatSessions, svcCall.userId, svcCall.sid)
          /\ chatMessages' = CascadeMessages(chatMessages, chatSessions')
          /\ svcCall' = [svcCall EXCEPT !.pc = "done", !.kind = "true"]
       \/ /\ UNCHANGED <<chatSessions, chatMessages>>
          /\ svcCall' = [svcCall EXCEPT !.pc = "done", !.fault = "delete"]
    /\ ServiceRest
    /\ UNCHANGED <<users, apps, clock, nextId>>

\* saveChatMessage called on the service: the insert, then the bump of the
\* session; a throw of either is caught and null returned
saveChatMessageCall ==
    /\ \/ /\ svcCall.pc = "saveChatMessage"
          /\ \/ /\ MessageKeysHold(chatSessions, users, svcCall.sid, svcCall.userId)
                /\ nextId' = nextId + 1
                /\ chatMessages' = chatMessages \cup
                      {NewMessage(nextId + 1, svcCall.sid, svcCall.userId,
                                  svcCall.role, svcCall.content, clock)}
                /\ svcCall' = [svcCall EXCEPT !.pc = "bump",
                      !.rows = {NewMessage(nextId + 1, svcCall.sid, svcCall.userId,
                                           svcCall.role, svcCall.content, clock)}]
             \/ /\ UNCHANGED <<nextId, chatMessages>>
                /\ svcCall' = [svcCall EXCEPT !.pc = "done", !.fault = "insert"]
          /\ UNCHANGED chatSessions
       \/ /\ svcCall.pc = "bump"
          /\ \/ /\ chatSessions' = BumpSession(chatSessions, svcCall.sid, clock)
                /\ svcCall' = [svcCall EXCEPT !.pc = "done", !.kind = "row"]
             \/ /\ UNCHANGED chatSessions
                /\ svcCall' = [svcCall EXCEPT !.pc = "done", !.fault = "update",
                                             !.rows = {}]
          /\ UNCHANGED <<nextId, chatMessages>>
    /\ ServiceRest
    /\ UNCHANGED <<users, apps, clock>>

\* generateChatTitle called on the service: the read, then the write of the
\* title derived (updateChatSessionTitle catches its own throw)
generateChatTitleCall ==
    /\ \/ /\ svcCall.pc = "generateChatTitle"
          /\ \/ \E t \in GeneratedTitles(chatMessages, svcCall.userId, svcCall.sid) :
                   svcCall' = [svcCall EXCEPT
                                  !.pc = IF t.some THEN "rename" ELSE "done",
                                  !.text = t.val]
             \/ svcCall' = [svcCall EXCEPT !.pc = "done", !.fault = "select"]
          /\ UNCHANGED chatSessions
       \/ /\ svcCall.pc = "rename"
          /\ \/ chatSessions' = updateChatSessionTitle(chatSessions, svcCall.userId,
                                    svcCall.sid, svcCall.text, clock)
             \/ UNCHANGED chatSessions
          /\ svcCall' = [svcCall EXCEPT !.pc = "done", !.kind = "text"]
    /\ ServiceRest
    /\ UNCHANGED <<users, apps, clock, nextId, chatMessages>>

\* Every method of the service, called one at a time.
ServiceNext ==
    \/ \E op \in OtherMethods, u \in UserIds, info \in ServiceUserInfos,
          sid \in SessionIds, c \in ChatTexts :
          /\ started < MaxServiceCalls
          /\ op # "ensureUser" => info = [email |-> "", name |-> ""]
          /\ op \notin {"getChatSession", "updateChatSessionTitle",
                        "deleteChatSession", "saveChatMessage", "getChatMessages",
                        "generateChatTitle"} => sid = NoId
          /\ ServiceCall(op, u, info, sid, "user", c)
    \/ ensureUserCall
    \/ createAppCall
    \/ getUserAppsCall
    \/ createChatSessionCall
    \/ getChatSessionsCall
    \/ getChatSessionCall
    \/ getChatMessagesCall
    \/ updateChatSessionTitleCall
    \/ deleteChatSessionCall
    \/ saveChatMessageCall
    \/ generateChatTitleCall
    \/ \E u \in UserIds, t \in ToolNames :
          started < MaxServiceCalls /\ recordToolExecutionStart(u, t, TRUE)
    \/ \E u \in UserIds, c \in MemoryTexts :
          started < MaxServiceCalls /\ storeMemoryStart(u, c)
    \/ recordToolExecutionInsert
    \/ storeMemoryEmbed
    \/ storeMemoryInsert
    \/ recordToolExecutionReturn
    \/ \E u \in UserIds, c \in {<<"a">>} :
          started < MaxServiceCalls /\ setPersistentMemoryStart(u, c)
    \/ setPersistentMemoryCall
    \/ \E u \in UserIds, q \in {<<"m">>} :
          started < MaxServiceCalls /\ searchMemoriesStart(u, q, DefaultLimit)
    \/ \E u \in UserIds, q \in {<<"m">>} :
          started < MaxServiceCalls /\ getPersonalizedContextStart(u, q)
    \/ \E u \in UserIds : started < MaxServiceCalls /\ getPersistentMemoryStart(u)
    \/ getPersistentMemoryRead
    \/ searchMemoriesEmbed
    \/ searchMemoriesSelect
    \/ ServiceReturn

\* ------------------------------------------------------------- apps route

\* request.method of a request to the apps route
AppMethods == {"GET", "POST", "DELETE", "PUT"}

\* name of the app in the body of a POST ('' is a body without name)
AppNameInputs == {"", "app"}

\* A request to the apps route.  deleted is not program state: it keeps the
\* appIds whose DELETE was answered with success.
AppIdle ==
    [pc |-> "idle", method |-> "", userId |-> NoUserId, name |-> "",
     appId |-> NoId, status |-> 0, success |-> FALSE, apps |-> {},
     deleted |-> {}]

\* the handler answers: json({success, ...}, {status})
AppAnswer(req, status, success) ==
    [req EXCEPT !.pc = "done", !.status = status, !.success = success]

\* what a step of the apps route leaves alone
AppRest ==
    UNCHANGED <<serviceVars, planVars, clientVars, memVars, toolVars, dbEnabled, users,
                clock, chatSessions, chatMessages, chatReq>>

\* action(): isEnabled, then the switch on the method up to the first await
\* on the store.  DELETE validates its body, logs, and answers success.
AppStart(method, userId, name, appId) ==
    /\ appReq.pc = "idle"
    /\ started' = started + 1
    /\ LET req == [appReq EXCEPT !.method = method, !.userId = userId,
                                 !.name = name, !.appId = appId]
       IN appReq' =
            IF ~dbEnabled THEN AppAnswer(req, 503, FALSE)
            ELSE CASE method = "GET" ->
                        IF userId = NoUserId THEN AppAnswer(req, 400, FALSE)
                        ELSE [req EXCEPT !.pc = "list"]
                   [] method = "POST" ->
                        IF userId = NoUserId \/ name = ""
                        THEN AppAnswer(req, 400, FALSE)
                        ELSE [req EXCEPT !.pc = "create"]
                   [] method = "DELETE" ->
                        IF appId = NoId \/ userId = NoUserId
                        THEN AppAnswer(req, 400, FALSE)
                        ELSE AppAnswer(req, 200, TRUE)
                   [] OTHER -> AppAnswer(req, 405, FALSE)
    /\ UNCHANGED <<apps, nextId>>
    /\ AppRest

\* GET: await getUserApps(userId); its catch turns a throw into []
AppList ==
    /\ appReq.pc = "list"
    /\ \/ appReq' = [AppAnswer(appReq, 200, TRUE) EXCEPT
                        !.apps = getUserApps(apps, appReq.userId)]
       \/ appReq' = AppAnswer(appReq, 200, TRUE)
    /\ UNCHANGED <<apps, nextId, started>>
    /\ AppRest

\* POST: await createApp(userId, name, config); null becomes a 500
AppCreate ==
    /\ appReq.pc = "create"
    /\ \/ /\ UserRows(users, appReq.userId) # {}
          /\ nextId' = nextId + 1
          /\ apps' = apps \cup {AppRow(nextId + 1, appReq.userId, appReq.name)}
          /\ appReq' = [AppAnswer(appReq, 200, TRUE) EXCEPT
                           !.apps = {AppRow(nextId + 1, appReq.userId, appReq.name)}]
       \/ /\ UNCHANGED <<apps, nextId>>
          /\ appReq' = AppAnswer(appReq, 500, FALSE)
    /\ UNCHANGED started
    /\ AppRest

\* the response is sent
AppReturn ==
    /\ appReq.pc = "done"
    /\ appReq' = [AppIdle EXCEPT !.deleted =
                     IF appReq.method = "DELETE" /\ appReq.success
                     THEN appReq.deleted \cup {appReq.appId}
                     ELSE appReq.deleted]
    /\ UNCHANGED <<apps, nextId, started>>
    /\ AppRest

\* the ids a request to the apps route may name
AppIds == {r.id : r \in apps} \cup {NoId}

\* Requests to the apps route, one at a time, for users that may exist.
AppNext ==
    \/ \E u \in UserIds : appReq.pc = "idle" /\ ToolEnsureUser(u)
    \/ \E method \in AppMethods, u \in UserIds \cup {NoUserId},
          n \in AppNameInputs, id \in AppIds :
          /\ started < MaxAppRequests
          /\ method # "POST" => n = ""
          /\ method # "DELETE" => id = NoId
          /\ AppStart(method, u, n, id)
    \/ AppList
    \/ AppCreate
    \/ AppReturn

\* ------------------------------------------------------ structured plans

\* The marker '## (clipboard) STRUCTURED PROJECT PLAN' and '# Project Plan: ', each one piece of
\* a text; the other pieces are a letter, a space and a line break
Marker == "## STRUCTURED PROJECT PLAN"
TitlePrefix == "# Project Plan: "
PlanPieces == {Marker, TitlePrefix, "x", " ", NewLine}

\* the title of a marked text without title line
Untitled == <<"Untitled Project">>

\* content.includes(piece)
Includes(content, piece) == \E i \in 1..Len(content) : content[i] = piece

\* content.indexOf(piece), for a piece that occurs (positions from 1)
IndexOf(content, piece) ==
    CHOOSE i \in 1..Len(content) :
        /\ content[i] = piece
        /\ \A j \in 1..(i - 1) : content[j] # piece

\* content.substring(start)
SubstringFrom(content, start) == SubSeq(content, start, Len(content))

\* export function isStructuredPlan(content)
isStructuredPlan(content) == Includes(content, Marker)

\* where /# Project Plan: (.+)/ can match: the prefix followed by at least
\* one character of the same line
MatchesAt(text, i) ==
    /\ text[i] = TitlePrefix
    /\ i < Len(text)
    /\ text[i + 1] # NewLine

\* the rest of the line from position i (what a greedy .+ takes)
RECURSIVE RestOfLine(_, _)
RestOfLine(text, i) ==
    IF i > Len(text) \/ text[i] = NewLine THEN <<>>
    ELSE <<text[i]>> \o RestOfLine(text, i + 1)

\* planContent.match(/# Project Plan: (.+)/): group 1 of the leftmost match
TitleMatch(text) ==
    IF \E i \in 1..Len(text) : MatchesAt(text, i)
    THEN LET first == CHOOSE i \in 1..Len(text) :
                         /\ MatchesAt(text, i)
                         /\ \A j \in 1..(i - 1) : ~MatchesAt(text, j)
         IN Some(RestOfLine(text, first + 1))
    ELSE Null

\* titleMatch ? titleMatch[1].trim() : 'Untitled Project'
PlanTitleOrNothing(match) == IF match.some THEN Trim(match.val) ELSE EmptyText
PlanTitle(match) == IF match.some THEN Trim(match.val) ELSE Untitled

NoPlan == [some |-> FALSE, title |-> EmptyText, rawContent |-> EmptyText]

\* export function parseStructuredPlan(content): null, or the plan (its
\* title and rawContent; the section fields are cut out of rawContent by
\* string searches that cannot throw)
parseStructuredPlan(content) ==
    IF ~isStructuredPlan(content) THEN NoPlan
    ELSE LET planContent == SubstringFrom(content, IndexOf(content, Marker))
         IN [some |-> TRUE, title |-> PlanTitle(TitleMatch(planContent)),
             rawContent |-> planContent]

\* a call of parseStructuredPlan: the text being written, then the result
PlanIdle ==
    [pc |-> "idle", content |-> EmptyText, result |-> NoPlan,
     section |-> EmptyText, pieces |-> 0, subsection |-> EmptyText,
     text |-> Null, items |-> Null]

PlanRest ==
    UNCHANGED <<dbEnabled, users, started, memVars, chatVars, toolVars,
                serviceVars, appVars, clientVars>>

\* the assistant's message grows by one piece
PlanWrite(piece) ==
    /\ planCall.pc = "idle"
    /\ Len(planCall.content) < MaxPlanLength
    /\ planCall' = [planCall EXCEPT !.content = Append(@, piece)]
    /\ PlanRest

\* parseStructuredPlan(content) is called on the message
PlanParse ==
    /\ planCall.pc = "idle"
    /\ planCall' = [planCall EXCEPT !.pc = "done",
                                    !.result = parseStructuredPlan(planCall.content)]
    /\ PlanRest

\* the caller keeps the result while the message goes on growing
PlanReturn ==
    /\ planCall.pc = "done"
    /\ planCall' = [planCall EXCEPT !.pc = "idle"]
    /\ PlanRest

PlanNext ==
    \/ \E piece \in PlanPieces : PlanWrite(piece)
    \/ PlanParse
    \/ PlanReturn

\* ------------------------------------------------------------ subsections

\* Section texts are sequences of characters; positions are counted from 0
\* as in the source.

\* '### '
SubsectionMark == <<"#", "#", "#", " ">>

\* 'Phase 1' and 'Phase 2', two of the names parseRoadmapSection asks for
Phase1 == <<"P", "h", "a", "s", "e", " ", "1">>
Phase2 == <<"P", "h", "a", "s", "e", " ", "2">>
SubsectionNames == {Phase1, Phase2}

\* `### ${subsection}`
HeadingOf(subsection) == SubsectionMark \o subsection

\* pattern occurs in content at position i
OccursAt(content, pattern, i) ==
    /\ i >= 0
    /\ i + Len(pattern) <= Len(content)
    /\ SubSeq(content, i + 1, i + Len(pattern)) = pattern

\* content.indexOf(pattern): the first position, or -1
indexOf(content, pattern) ==
    IF \E i \in 0..Len(content) : OccursAt(content, pattern, i)
    THEN CHOOSE i \in 0..Len(content) :
            /\ OccursAt(content, pattern, i)
            /\ \A j \in 0..(i - 1) : ~OccursAt(content, pattern, j)
    ELSE -1

\* content.substring(from, to)
substring(content, from, to) == SubSeq(content, from + 1, to)

\* String.prototype.trim: spaces and line breaks go
IsWhitespace(c) == c \in {" ", NewLine}
RECURSIVE trimStart(_)
trimStart(t) ==
    IF t # <<>> /\ IsWhitespace(Head(t)) THEN trimStart(Tail(t)) ELSE t
RECURSIVE trimEnd(_)
trimEnd(t) ==
    IF t # <<>> /\ IsWhitespace(t[Len(t)])
    THEN trimEnd(SubSeq(t, 1, Len(t) - 1)) ELSE t
trim(t) == trimEnd(trimStart(t))

\* /\n### /
NextSubsection == <<NewLine>> \o SubsectionMark

\* const subsectionEnd = nextSubsectionMatch ? from + index : content.length
\* where the match is looked for in content.substring(from)
subsectionEnd(content, from) ==
    LET rest == substring(content, from, Len(content))
        index == indexOf(rest, NextSubsection)
    IN IF index # -1 THEN from + index ELSE Len(content)

\* where the extraction starts: subsectionStart + subsection.length
ContentFromAfterHeading(subsectionStart, subsection) ==
    subsectionStart + Len(HeadingOf(subsection))
ContentFrom(subsectionStart, subsection) == subsectionStart + Len(subsection)

\* content.substring(subsectionStart + subsection.length, subsectionEnd)
subsectionContent(content, subsection) ==
    LET from == ContentFrom(indexOf(content, HeadingOf(subsection)), subsection)
    IN substring(content, from, subsectionEnd(content, from))

\* function extractSubsectionText(content, subsection): string | undefined
extractSubsectionText(content, subsection) ==
    IF indexOf(content, HeadingOf(subsection)) = -1 THEN Null
    ELSE LET text == trim(subsectionContent(content, subsection))
         IN IF text # <<>> THEN Some(text) ELSE Null

\* the lines of a text
RECURSIVE LinesOf(_)
LinesOf(t) ==
    IF indexOf(t, <<NewLine>>) = -1 THEN <<t>>
    ELSE <<substring(t, 0, indexOf(t, <<NewLine>>))>>
         \o LinesOf(substring(t, indexOf(t, <<NewLine>>) + 1, Len(t)))

\* /^- (.+)$/gm matches a line: '- ' and at least one more character
IsItemLine(line) == Len(line) > 2 /\ line[1] = "-" /\ line[2] = " "

\* items.map(item => item.substring(2).trim()) over the matching lines
RECURSIVE ItemsOf(_)
ItemsOf(lines) ==
    IF lines = <<>> THEN <<>>
    ELSE (IF IsItemLine(Head(lines))
          THEN <<trim(substring(Head(lines), 2, Len(Head(lines))))>>
          ELSE <<>>) \o ItemsOf(Tail(lines))

\* function extractSubsectionItems(content, subsection): string[] | undefined
extractSubsectionItems(content, subsection) ==
    IF indexOf(content, HeadingOf(subsection)) = -1 THEN Null
    ELSE LET items == ItemsOf(LinesOf(subsectionContent(content, subsection)))
         IN IF items # <<>> THEN Some(items) ELSE Null

\* what a section given to the parsers is put together from
SectionPieces ==
    {HeadingOf(n) : n \in SubsectionNames}
        \cup {<<NewLine>>, <<"x">>, <<"-", " ">>, <<" ">>}

\* the section grows by one piece
SectionWrite(piece) ==
    /\ planCall.pc = "idle"
    /\ planCall.pieces < MaxSectionPieces
    /\ planCall' = [planCall EXCEPT !.section = @ \o piece, !.pieces = @ + 1]
    /\ PlanRest

\* parseRoadmapSection / parseRequirementsSection read one subsection
SectionExtract(subsection) ==
    /\ planCall.pc = "idle"
    /\ planCall' = [planCall EXCEPT !.pc = "done", !.subsection = subsection,
          !.text = extractSubsectionText(planCall.section, subsection),
          !.items = extractSubsectionItems(planCall.section, subsection)]
    /\ PlanRest

SectionNext ==
    \/ \E piece \in SectionPieces : SectionWrite(piece)
    \/ \E n \in SubsectionNames : SectionExtract(n)
    \/ PlanReturn

\* ------------------------------------------------------- specifications

\* ------------------------------------------ usePostgreSQLChatHistory

\* the storeMessage calls of one page, one per message
StoreCalls == 1..MaxStoreCalls

HookCallIdle == [pc |-> "idle", chatId |-> NoId, stored |-> FALSE]

\* currentChatId = atom(undefined); no call made yet.  created counts the
\* chat sessions the hook's calls created.
HookIdle ==
    [currentChatId |-> NoId, created |-> 0,
     calls |-> [i \in StoreCalls |-> HookCallIdle]]

\* the signed-in user of the page
HookUser == "google_u2"

HookRest ==
    UNCHANGED <<dbEnabled, started, memVars, toolVars, serviceVars, appVars,
                planVars, auth, userSession, clock, chatReq>>

\* storeMessage(message) up to its first await: the authentication check,
\* let chatId = currentChatId.get(), if (!chatId) chatId = await createNewChat()
storeMessageStart(i, authenticated) ==
    /\ hook.calls[i].pc = "idle"
    /\ \A j \in StoreCalls : j < i => hook.calls[j].pc # "idle"
    /\ hook' = [hook EXCEPT !.calls[i] =
          IF ~authenticated THEN [@ EXCEPT !.pc = "done"]
          ELSE IF hook.currentChatId # NoId
          THEN [@ EXCEPT !.pc = "post", !.chatId = hook.currentChatId]
          ELSE [@ EXCEPT !.pc = "create"]]
    /\ UNCHANGED <<users, chatSessions, chatMessages, nextId>>
    /\ HookRest

\* createNewChat: await fetch('/api/chats', POST) and what follows it:
\* currentChatId.set(newChatId), return newChatId; or null when the response
\* is not ok, and storeMessage returns
createNewChat(i) ==
    /\ hook.calls[i].pc = "create"
    /\ \/ /\ dbEnabled
          /\ users' = ensureUser(users, HookUser, "", "")
          /\ nextId' = nextId + 1
          /\ chatSessions' = chatSessions \cup
                {NewSession(nextId + 1, HookUser, EmptyText, clock)}
          /\ hook' = [hook EXCEPT !.currentChatId = nextId + 1,
                                  !.created = @ + 1,
                                  !.calls[i] = [@ EXCEPT !.pc = "post",
                                                         !.chatId = nextId + 1]]
       \/ /\ UNCHANGED <<users, nextId, chatSessions>>
          /\ hook' = [hook EXCEPT !.calls[i] = [@ EXCEPT !.pc = "done"]]
    /\ UNCHANGED chatMessages
    /\ HookRest

\* storeMessage: await fetch(`/api/chats/${chatId}/messages`, POST); a
\* response that is not ok is logged
storeMessagePost(i) ==
    /\ hook.calls[i].pc = "post"
    /\ \/ /\ dbEnabled
          /\ MessageKeysHold(chatSessions, users, hook.calls[i].chatId, HookUser)
          /\ nextId' = nextId + 1
          /\ chatMessages' = chatMessages \cup
                {NewMessage(nextId + 1, hook.calls[i].chatId, HookUser,
                            "user", <<"m">>, clock)}
          /\ chatSessions' = BumpSession(chatSessions, hook.calls[i].chatId, clock)
          /\ hook' = [hook EXCEPT !.calls[i] = [@ EXCEPT !.pc = "done",
                                                         !.stored = TRUE]]
       \/ /\ UNCHANGED <<nextId, chatMessages, chatSessions>>
          /\ hook' = [hook EXCEPT !.calls[i] = [@ EXCEPT !.pc = "done"]]
    /\ UNCHANGED users
    /\ HookRest

\* storeMessage calls of one page; a call may start while others await
HookNext ==
    \/ \E i \in StoreCalls, authenticated \in BOOLEAN :
          storeMessageStart(i, authenticated)
    \/ \E i \in StoreCalls : createNewChat(i)
    \/ \E i \in StoreCalls : storeMessagePost(i)

\* ------------------------------------------------------ GoogleAuthService

\* What a string given to JSON.parse can be: not JSON at all, the JSON text
\* null, or the JSON text of a GoogleUser.  NoItem is getItem() === null.
NoItem == "absent"
JsonTexts == {"garbage", "null", "user"}

\* the value of authState.user: null or a GoogleUser
NoUser == "null"
GoogleUser == "user"

\* JSON.parse(text): throws on garbage, otherwise the value
ParseThrows(text) == text = "garbage"
Parse(text) == IF text = "null" THEN NoUser ELSE GoogleUser

\* user.email, evaluated for the log line after the update: a TypeError
\* when user is null
EmailThrows(user) == user = NoUser

\* listeners: one that returns, one that throws, one that calls its own
\* unsubscribe function while it is being notified
AuthListeners == {"plain", "throws", "once"}

\* private authState = {isAuthenticated: false, user: null, isLoading:
\* false}, listeners = [], nothing stored.  registered and invoked keep, for
\* the last notification, the listeners registered when it began and the
\* listeners it invoked; late is set if a listener is invoked after its
\* unsubscribe returned.
AuthInitial ==
    [isAuthenticated |-> FALSE, user |-> NoUser, isLoading |-> FALSE,
     listeners |-> <<>>, stored |-> NoItem, pc |-> "idle", k |-> 0, len |-> 0,
     registered |-> {}, invoked |-> <<>>, removed |-> {}, late |-> FALSE]

AuthRest ==
    UNCHANGED <<dbEnabled, users, started, memVars, chatVars, toolVars,
                serviceVars, appVars, planVars, hook, userSession>>

\* this.authState = {...this.authState, ...updates}
Updated(a, isAuthenticated, user, isLoading) ==
    [a EXCEPT !.isAuthenticated = isAuthenticated, !.user = user,
              !.isLoading = isLoading]

\* loadStoredUser(), run by the constructor while no listener is registered
loadStoredUser(a) ==
    IF a.stored = NoItem THEN a
    ELSE IF ParseThrows(a.stored) THEN [a EXCEPT !.stored = NoItem]
    ELSE LET b == Updated(a, TRUE, Parse(a.stored), FALSE)
         IN IF EmailThrows(b.user) THEN [b EXCEPT !.stored = NoItem] ELSE b

\* the query of the page's URL: nothing, auth_error, or auth_success with
\* the user parameter
CallbackUrls == {"none", "error"} \cup JsonTexts

\* checkForAuthCallback(), run by the constructor after loadStoredUser
checkForAuthCallback(a, url) ==
    IF url = "none" THEN a
    ELSE IF url = "error" THEN [a EXCEPT !.isLoading = FALSE]
    ELSE IF ParseThrows(url) THEN [a EXCEPT !.isLoading = FALSE]
    ELSE LET b == Updated([a EXCEPT !.stored = url], TRUE, Parse(url), FALSE)
         IN IF EmailThrows(b.user) THEN [b EXCEPT !.isLoading = FALSE] ELSE b

\* a page is loaded: a new GoogleAuthService is constructed and initialize()
\* runs; localStorage is what the last page left
AuthInitialize(url) ==
    /\ auth.pc = "idle"
    /\ auth' = checkForAuthCallback(
                  loadStoredUser([AuthInitial EXCEPT !.stored = auth.stored]), url)
    /\ AuthRest

\* something else of the origin leaves text under the key that is not JSON
AuthStorageCorrupted ==
    /\ auth.pc = "idle"
    /\ auth.stored # "garbage"
    /\ auth' = [auth EXCEPT !.stored = "garbage"]
    /\ AuthRest

\* addListener(listener): this.listeners.push(listener)
addListener(l) ==
    /\ auth.pc = "idle"
    /\ \A i \in 1..Len(auth.listeners) : auth.listeners[i] # l
    /\ auth' = [auth EXCEPT !.listeners = Append(@, l), !.removed = @ \ {l}]
    /\ AuthRest

\* the function addListener returned: indexOf, splice(index, 1)
Unsubscribed(listeners, l) == SelectSeq(listeners, LAMBDA x : x # l)

AuthUnsubscribe(l) ==
    /\ auth.pc = "idle"
    /\ \E i \in 1..Len(auth.listeners) : auth.listeners[i] = l
    /\ auth' = [auth EXCEPT !.listeners = Unsubscribed(@, l),
                            !.removed = @ \cup {l}]
    /\ AuthRest

\* updateAuthState(updates): the new state, then notifyListeners() begins:
\* forEach reads the length once
NotifyBegin(a) ==
    [a EXCEPT !.pc = "notify", !.k = 0, !.len = Len(a.listeners),
              !.registered = {a.listeners[i] : i \in 1..Len(a.listeners)},
              !.invoked = <<>>]

\* signOut(): removeItem, updateAuthState({false, null, false})
signOut ==
    /\ auth.pc = "idle"
    /\ auth' = NotifyBegin(Updated([auth EXCEPT !.stored = NoItem],
                                   FALSE, NoUser, FALSE))
    /\ AuthRest

\* signIn(): updateAuthState({isLoading: true}), then the redirect
signIn ==
    /\ auth.pc = "idle"
    /\ auth' = NotifyBegin([auth EXCEPT !.isLoading = TRUE])
    /\ AuthRest

\* one round of this.listeners.forEach: index k is visited if the array
\* still has it; the listener is called inside try/catch; 'once' splices
\* itself out of this.listeners
notifyListeners(a) ==
    IF a.k < a.len
    THEN IF a.k < Len(a.listeners)
         THEN LET l == a.listeners[a.k + 1]
              IN [a EXCEPT !.k = @ + 1,
                           !.invoked = Append(@, l),
                           !.late = @ \/ l \in a.removed,
                           !.listeners = IF l = "once" THEN Unsubscribed(@, l)
                                         ELSE @,
                           !.removed = IF l = "once" THEN @ \cup {l} ELSE @]
         ELSE [a EXCEPT !.k = @ + 1]
    ELSE [a EXCEPT !.pc = "idle"]

AuthNotify ==
    /\ auth.pc = "notify"
    /\ auth' = notifyListeners(auth)
    /\ AuthRest

AuthNext ==
    \/ \E url \in CallbackUrls : AuthInitialize(url)
    \/ AuthStorageCorrupted
    \/ \E l \in AuthListeners : addListener(l)
    \/ \E l \in AuthListeners : AuthUnsubscribe(l)
    \/ signOut
    \/ signIn
    \/ AuthNotify

\* --------------------------------------------------------- SessionService

\* 30 days; every time of this section is counted in seconds (the source
\* counts the same times in milliseconds)
SESSION_DURATION == 30 * 24 * 60 * 60

\* time passes in steps of half a session
TimeStep == SESSION_DURATION \div 2

NoEntry == [some |-> FALSE, userId |-> 0, timestamp |-> 0]

\* JSON.stringify({userId, timestamp}) under the key, and back
Entry30(userId, timestamp) ==
    [some |-> TRUE, userId |-> userId, timestamp |-> timestamp]

\* Date.now() - timestamp < SESSION_DURATION
StillValid(entry, now) == now - entry.timestamp < SESSION_DURATION

\* nothing stored, time 0.  generated counts the ids made (an id is
\* `user_${Date.now()}_${random}`, never the same twice); expired keeps the
\* ids whose session has been seen 30 days old; op and result (active) are
\* the call made at the present time, if any, and what it returned.
SessionInitial ==
    [stored |-> NoEntry, now |-> 0, ticks |-> 0, calls |-> 0, generated |-> 0,
     expired |-> {}, op |-> "", result |-> 0, active |-> FALSE]

SessionRest ==
    UNCHANGED <<dbEnabled, users, started, memVars, chatVars, toolVars,
                serviceVars, appVars, planVars, hook, auth>>

\* the ids whose stored session is 30 days old at time now
ExpiredAt(s, now) ==
    IF s.stored.some /\ ~StillValid(s.stored, now)
    THEN s.expired \cup {s.stored.userId} ELSE s.expired

\* time goes on
SessionTick ==
    /\ userSession.ticks < MaxSessionTicks
    /\ userSession' = [userSession EXCEPT !.now = @ + TimeStep, !.ticks = @ + 1,
                      !.op = "",
                      !.expired = ExpiredAt(userSession, userSession.now + TimeStep)]
    /\ SessionRest

SessionCalled(s, op) == [s EXCEPT !.calls = @ + 1, !.op = op]

\* static getUserId(): the stored id while the session is valid; otherwise
\* the entry is removed and a new id is made and stored
getUserId ==
    /\ userSession.calls < MaxSessionCalls
    /\ userSession' =
          IF userSession.stored.some /\ StillValid(userSession.stored, userSession.now)
          THEN [SessionCalled(userSession, "getUserId") EXCEPT
                   !.result = userSession.stored.userId]
          ELSE [SessionCalled(userSession, "getUserId") EXCEPT
                   !.generated = @ + 1,
                   !.stored = Entry30(userSession.generated + 1, userSession.now),
                   !.result = userSession.generated + 1]
    /\ SessionRest

\* static clearSession(): removeItem
clearSession ==
    /\ userSession.calls < MaxSessionCalls
    /\ userSession' = [SessionCalled(userSession, "clearSession") EXCEPT !.stored = NoEntry]
    /\ SessionRest

\* static hasActiveSession(): false without entry, else the validity test;
\* the entry stays
hasActiveSession ==
    /\ userSession.calls < MaxSessionCalls
    /\ userSession' = [SessionCalled(userSession, "hasActiveSession") EXCEPT
                      !.active = /\ userSession.stored.some
                                 /\ StillValid(userSession.stored, userSession.now)]
    /\ SessionRest

\* static refreshSession(): if (stored) setItem({userId, timestamp: Date.now()})
refreshSession ==
    /\ userSession.calls < MaxSessionCalls
    /\ userSession' = [SessionCalled(userSession, "refreshSession") EXCEPT
                      !.stored = IF userSession.stored.some
                                 THEN Entry30(userSession.stored.userId, userSession.now)
                                 ELSE @]
    /\ SessionRest

SessionNext ==
    \/ SessionTick
    \/ getUserId
    \/ clearSession
    \/ hasActiveSession
    \/ refreshSession

Init ==
    /\ dbEnabled \in BOOLEAN
    /\ users = {}
    /\ persistentMemory = EmptyBag
    /\ memReq = [p \in Procs |-> MemIdle]
    /\ memHist = <<>>
    /\ started = 0
    /\ clock = 0
    /\ chatSessions = {}
    /\ chatMessages = {}
    /\ nextId = 0
    /\ chatReq = [p \in Procs |-> ChatIdle]
    /\ hasApiKey \in BOOLEAN
    /\ toolExecutions = {}
    /\ memoryEmbeddings = {}
    /\ toolCall = ToolIdle
    /\ svcCall = ServiceIdle
    /\ apps = {}
    /\ appReq = AppIdle
    /\ planCall = PlanIdle
    /\ hook = HookIdle
    /\ auth = AuthInitial
    /\ userSession = SessionInitial

\* Overlapping requests: any process may take its next step.
MemNext == \E p \in Procs : MemStep(p, FALSE)

SpecMem == Init /\ [][MemNext]_vars

\* Requests served one at a time.
MemSeqNext == MemStep(1, TRUE)

SpecMemSeq == Init /\ [][MemSeqNext]_vars

SpecChat == Init /\ [][ChatNext]_vars

SpecChatSeq == Init /\ [][ChatSeqNext]_vars

SpecTitle == Init /\ [][TitleNext]_vars

SpecDelete == Init /\ [][DeleteNext]_vars

\* recordToolExecution calls, one at a time.
SpecTool == Init /\ [][ToolNext]_vars

\* Memories stored, persistent memory set, then searched and turned into
\* context, one call at a time.
ContextNext ==
    \/ \E u \in UserIds : ToolEnsureUser(u)
    \/ \E u \in UserIds, c \in MemoryTexts :
          started < MaxContextCalls /\ storeMemoryStart(u, c)
    \/ storeMemoryEmbed
    \/ storeMemoryInsert
    \/ recordToolExecutionReturn
    \/ \E u \in UserIds, c \in {EmptyText, <<"a">>} :
          started < MaxContextCalls /\ setPersistentMemoryStart(u, c)
    \/ setPersistentMemoryCall
    \/ \E u \in UserIds, q \in Queries, l \in SearchLimits :
          started < MaxContextCalls /\ searchMemoriesStart(u, q, l)
    \/ \E u \in UserIds, q \in Queries :
          started < MaxContextCalls /\ getPersonalizedContextStart(u, q)
    \/ getPersistentMemoryRead
    \/ searchMemoriesEmbed
    \/ searchMemoriesSelect
    \/ ServiceReturn

SpecContext == Init /\ [][ContextNext]_vars

SpecService == Init /\ [][ServiceNext]_vars

SpecPlan == Init /\ [][PlanNext]_vars

SpecSession == Init /\ [][SessionNext]_vars

SpecAuth == Init /\ [][AuthNext]_vars

SpecHook == Init /\ [][HookNext]_vars

SpecSection == Init /\ [][SectionNext]_vars

SpecApps == Init /\ [][AppNext]_vars

\* ------------------------------------------------- persistent-memory claims

\* the request answered last and the one before it
HistLast == memHist[Len(memHist)]
HistPrev == memHist[Len(memHist) - 1]

\* a 'get' that has just been answered, no statement of it having failed
GetAnswered(p) ==
    /\ memReq[p].pc = "done"
    /\ memReq[p].action = "get"
    /\ memReq[p].status = 200
    /\ memReq[p].fault = "none"

\* a get answered right after a successful set for the same user
GetAfterSet(p) ==
    /\ GetAnswered(p)
    /\ Len(memHist) >= 1
    /\ HistLast.action = "set"
    /\ HistLast.userId = memReq[p].userId

\* a get answered right after a successful set and then a successful append
\* for the same user
GetAfterSetAppend(p) ==
    /\ GetAnswered(p)
    /\ Len(memHist) = 2
    /\ HistPrev.action = "set"
    /\ HistLast.action = "append"
    /\ HistPrev.userId = memReq[p].userId
    /\ HistLast.userId = memReq[p].userId

\* C1: with the store enabled and no statement failing, setPersistentMemory
\* (userId, content) followed by getPersistentMemory(userId) returns exactly
\* content, the empty string included.
C1_SetGetRoundTrip ==
    \A p \in Procs : GetAfterSet(p) => memReq[p].result = Some(HistLast.arg)

\* C1 witness: the empty string has been set and read back as the empty
\* string, not as null.
C1_Witness ==
    \E p \in Procs :
        GetAfterSet(p) /\ HistLast.arg = EmptyText /\ memReq[p].result = Some(EmptyText)

\* C2 as stated: set(content1), append(content2), get returns
\* content1 + "\n\n" + content2 for all contents, empty strings included.
C2_SetAppendGet_AsStated ==
    \A p \in Procs :
        GetAfterSetAppend(p) =>
            memReq[p].result = Some(HistPrev.arg \o Separator \o HistLast.arg)

\* C2 as amended: set(content1), append(content2), get returns
\* content1 + "\n\n" + content2 when content1 is not empty, and content2
\* alone when content1 is the empty string.
C2_SetAppendGet ==
    \A p \in Procs :
        GetAfterSetAppend(p) =>
            memReq[p].result =
                IF HistPrev.arg # EmptyText
                THEN Some(HistPrev.arg \o Separator \o HistLast.arg)
                ELSE Some(HistLast.arg)

\* C2 witness: a non-empty text was set, a text appended, and the get
\* returned the two joined by a blank line.
C2_Witness ==
    \E p \in Procs :
        /\ GetAfterSetAppend(p)
        /\ HistPrev.arg = <<"a">>
        /\ HistLast.arg = <<"b">>
        /\ memReq[p].result = Some(<<"a", "\n", "\n", "b">>)

\* C7: when setPersistentMemory's delete succeeds and its insert fails, a
\* user who had a persistent-memory row still has one: getPersistentMemory
\* returns the previous content.
C7_PartialFailureKeepsPrevious ==
    \A p \in Procs :
        (/\ memReq[p].pc = "done"
         /\ memReq[p].action \in {"set", "append"}
         /\ memReq[p].fault = "insert"
         /\ memReq[p].prev # {})
        => \A res \in GetResults(persistentMemory, memReq[p].userId) :
               res.some /\ res.val \in memReq[p].prev

\* C8: after any number of setPersistentMemory calls made one after the
\* other, the store holds at most one persistent-memory row per user.
C8_SequentialAtMostOneRow ==
    \A u \in UserIds : RowCount(persistentMemory, u) <= 1

\* C8 witness: two successful sets for the same user have been answered and
\* the user has exactly one row.
C8_Witness ==
    /\ Len(memHist) = 2
    /\ HistPrev.action = "set"
    /\ HistLast.action = "set"
    /\ HistPrev.userId = HistLast.userId
    /\ HistPrev.arg # HistLast.arg
    /\ RowCount(persistentMemory, HistLast.userId) = 1

\* C9: in every reachable state, overlapping set/append requests included,
\* no user has more than one live persistent-memory row.
C9_AlwaysAtMostOneRow ==
    \A r1, r2 \in BagToSet(persistentMemory) :
        r1.userId = r2.userId => r1 = r2 /\ persistentMemory[r1] = 1

\* ----------------------------------------------------------- chat claims

\* the request holds what its getChatSession call returned
ResultHeld(p) ==
    \/ chatReq[p].pc \in {"messages", "save", "bump", "title", "rename"}
    \/ chatReq[p].pc = "done" /\ chatReq[p].status = 404
    \/ chatReq[p].pc = "done" /\ chatReq[p].op = "load" /\ chatReq[p].status = 200

\* C3: getChatSession(userId, sessionId) returns null whenever the session
\* row exists but belongs to another user, and returns a session only when
\* the row's id and owner both match (and, right after the call, that row
\* is a row of the table).
C3_GetChatSessionOwnership ==
    \A p \in Procs :
        ResultHeld(p) =>
            /\ (\E s \in chatSessions :
                    s.id = chatReq[p].sid /\ s.userId # chatReq[p].userId)
                => ~chatReq[p].session.some
            /\ chatReq[p].session.some =>
                    /\ chatReq[p].session.val.id = chatReq[p].sid
                    /\ chatReq[p].session.val.userId = chatReq[p].userId
            /\ chatReq[p].session.some /\ chatReq[p].pc \in {"messages", "save"}
                => chatReq[p].session.val \in chatSessions

\* C3 witness: a user asked for a session that exists and belongs to
\* another user, and got null (the loader answered 404).
C3_Witness ==
    \E p \in Procs :
        /\ chatReq[p].op = "load"
        /\ chatReq[p].pc = "done"
        /\ chatReq[p].status = 404
        /\ ~chatReq[p].session.some
        /\ \E s \in chatSessions :
              s.id = chatReq[p].sid /\ s.userId # chatReq[p].userId

\* an append-message request of a user who did not own the target session
\* when the request arrived
ForeignAppend(r) == r.op = "append" /\ ~r.owner

\* the answer to a foreign append: 404 when the store is enabled and the
\* body carries userId, role, content and messageIndex, else the 503, 401
\* or 400 of the earlier checks
C4_Answer ==
    \A p \in Procs :
        ForeignAppend(chatReq[p]) /\ chatReq[p].pc = "done" =>
            /\ chatReq[p].msg = NoId
            /\ chatReq[p].valid /\ dbEnabled => chatReq[p].status = 404
            /\ ~(chatReq[p].valid /\ dbEnabled) => chatReq[p].status \in {400, 401, 503}

\* no step of a foreign append writes to chat_messages or chat_sessions
C4_Frame ==
    \A p \in Procs :
        ForeignAppend(chatReq'[p]) /\ chatReq'[p] # chatReq[p]
            => UNCHANGED <<chatMessages, chatSessions>>

\* C4: an append-message request (store enabled, body carrying userId, role,
\* content and messageIndex) whose userId does not own the target session is
\* answered 404; a request the earlier checks turn away is answered 503, 401
\* or 400.  In every case it inserts no chat message and leaves every
\* session's lastMessageAt, updatedAt and title unchanged.
C4_ForeignAppend == [](C4_Answer) /\ [][C4_Frame]_vars

\* C4 witness: a complete append request for an existing session of another
\* user was answered 404.
C4_Witness ==
    \E p \in Procs :
        /\ ForeignAppend(chatReq[p])
        /\ chatReq[p].pc = "done"
        /\ chatReq[p].valid
        /\ chatReq[p].status = 404
        /\ \E s \in chatSessions :
              s.id = chatReq[p].sid /\ s.userId # chatReq[p].userId

\* C5: after any saveChatMessage call that leaves a new message row in the
\* store, the owning session's lastMessageAt is at least the message's
\* timestamp.
C5_LastMessageAtCoversMessage ==
    \A p \in Procs :
        (/\ chatReq[p].op = "append"
         /\ chatReq[p].pc \in {"title", "rename", "done"}
         /\ chatReq[p].msg # NoId)
        => \A m \in chatMessages :
              m.id = chatReq[p].msg =>
                 \E s \in chatSessions :
                    s.id = m.chatSessionId /\ s.lastMessageAt >= m.timestamp

\* C6: no reader (getChatSession then getChatMessages) observes a message
\* while the lastMessageAt of its session, in the session it read and in the
\* store, is older than that message.
C6_ReaderNeverSeesStaleSession ==
    \A p \in Procs :
        (chatReq[p].op = "load" /\ chatReq[p].pc = "done" /\ chatReq[p].status = 200)
        => \A m \in chatReq[p].seen :
              \/ chatReq[p].session.val.lastMessageAt >= m.timestamp
              \/ \A s \in chatSessions :
                    s.id = m.chatSessionId => s.lastMessageAt >= m.timestamp

\* ------------------------------------------------------- title claims

\* a step in which generateChatTitle, called by request p, writes the title
DerivedTitleWritten(p) ==
    /\ chatReq[p].op = "append"
    /\ chatReq[p].pc = "rename"
    /\ chatSessions' # chatSessions

\* C15: over append requests served one after another, generateChatTitle
\* writes a title only to a session that has had no title so far (so at
\* most once), and every other change of a title is made by an updateTitle
\* request.
C15_Step ==
    /\ \A p \in Procs :
          DerivedTitleWritten(p) =>
              \A s \in chatSessions : s.id = chatReq[p].sid => ~s.title.some
    /\ (\E s \in chatSessions, t \in chatSessions' :
            s.id = t.id /\ s.title # t.title)
          => \E p \in Procs :
                /\ chatReq[p].pc \in {"rename", "updateTitle"}
                /\ chatReq'[p] # chatReq[p]
C15_TitleDerivedAtMostOnce == [][C15_Step]_vars

\* the earliest user messages of the session request p appends to
FirstUserMessages(p) ==
    {m \in getChatMessages(chatMessages, chatReq[p].userId, chatReq[p].sid) :
        /\ m.role = "user"
        /\ \A n \in getChatMessages(chatMessages, chatReq[p].userId, chatReq[p].sid) :
              n.role = "user" => m.timestamp <= n.timestamp}

\* the first 50 characters of a text, with an ellipsis exactly when the text
\* is longer than that
Truncated(text) ==
    IF Len(text) > TitleLength
    THEN SubSeq(text, 1, TitleLength) \o Ellipsis
    ELSE text

\* C16: the title generateChatTitle derives is the first 50 characters of
\* the first user message (of its text as written, or of its text without
\* the surrounding white space), followed by an ellipsis exactly when that
\* text is longer than the 50 characters taken from it.
C16_TitleIsTruncatedMessage ==
    \A p \in Procs :
        chatReq[p].op = "append" /\ chatReq[p].pc = "rename" =>
            \E m \in FirstUserMessages(p) :
                chatReq[p].title \in {Truncated(m.content), Truncated(Trim(m.content))}

\* ------------------------------------------------- tool-execution claims

\* C10: recordToolExecution returns normally in every case; when its audit
\* insert succeeded it has written exactly one ToolExecution row and called
\* storeMemory exactly once, and that row still exists when the embedding
\* call or the memory insert failed (no memory row is added then); when the
\* derived write succeeded exactly one memory row was added.
C10_RecordToolExecution ==
    toolCall.op = "recordToolExecution" /\ toolCall.pc = "done" =>
        /\ toolCall.raised = NoError
        /\ toolCall.row = NoId =>
              /\ toolExecutions = toolCall.toolsBefore
              /\ memoryEmbeddings = toolCall.memoriesBefore
              /\ toolCall.attempts = 0
        /\ toolCall.row # NoId =>
              /\ toolCall.attempts = 1
              /\ Cardinality(toolExecutions \ toolCall.toolsBefore) = 1
              /\ toolCall.toolsBefore \subseteq toolExecutions
              /\ \E r \in toolExecutions \ toolCall.toolsBefore :
                    /\ r.id = toolCall.row
                    /\ r.userId = toolCall.userId
                    /\ r.toolName = toolCall.toolName
              /\ toolCall.fault \in {"embed", "store"} =>
                    memoryEmbeddings = toolCall.memoriesBefore
              /\ toolCall.fault = "none" =>
                    /\ Cardinality(memoryEmbeddings \ toolCall.memoriesBefore) = 1
                    /\ toolCall.memoriesBefore \subseteq memoryEmbeddings

\* C10 witness: the audit row was written, the embedding call failed, and
\* the call has returned with the row in place.
C10_Witness ==
    /\ toolCall.op = "recordToolExecution"
    /\ toolCall.pc = "done"
    /\ toolCall.fault = "embed"
    /\ toolCall.raised = NoError
    /\ \E r \in toolExecutions : r.id = toolCall.row

\* C11: storeMemory never raises to its caller; when the API key is missing,
\* the embedding call fails or the insert fails, the call returns normally
\* and memory_embeddings is as it was; otherwise exactly one row was added.
C11_StoreMemoryNeverRaises ==
    toolCall.op = "storeMemory" /\ toolCall.pc = "done" =>
        /\ toolCall.raised = NoError
        /\ toolExecutions = toolCall.toolsBefore
        /\ toolCall.fault # "none" \/ ~dbEnabled =>
              memoryEmbeddings = toolCall.memoriesBefore
        /\ toolCall.fault = "none" /\ dbEnabled =>
              /\ toolCall.memoriesBefore \subseteq memoryEmbeddings
              /\ Cardinality(memoryEmbeddings \ toolCall.memoriesBefore) = 1

\* C11 witness: a direct storeMemory call whose insert failed after the
\* embedding was made has returned.
C11_Witness ==
    /\ toolCall.op = "storeMemory"
    /\ toolCall.pc = "done"
    /\ toolCall.fault = "store"
    /\ toolCall.embedCalls = 1
    /\ toolCall.raised = NoError

\* ------------------------------------------------ search and context claims

\* the rows of the caller that pass the relevance filter for the query
RelevantRows ==
    {r \in MemoriesOf(memoryEmbeddings, svcCall.userId) :
        Similarity(r.embedding, svcCall.queryVector) > Threshold}

\* C12: searchMemories never returns a result whose similarity is less than
\* or equal to 0.7, whatever the stored rows, the query and the limit; what
\* it returns are rows of the caller, at most limit of them.
C12_SearchAboveThreshold ==
    svcCall.op = "searchMemories" /\ svcCall.pc = "done" =>
        /\ \A i \in 1..Len(svcCall.results) : svcCall.results[i].similarity > 70
        /\ Len(svcCall.results) <= svcCall.limit
        /\ Len(svcCall.results) <= Cardinality(RelevantRows)

\* C12 witness: a search returned a result while a row of the caller at
\* similarity 0.7 exactly, within the limit, was left out.
C12_Witness ==
    /\ svcCall.op = "searchMemories"
    /\ svcCall.pc = "done"
    /\ Len(svcCall.results) = 1
    /\ svcCall.limit = DefaultLimit
    /\ \E r \in MemoriesOf(memoryEmbeddings, svcCall.userId) :
          Similarity(r.embedding, svcCall.queryVector) = 70

\* C13: getPersonalizedContext returns the empty string exactly when
\* getPersistentMemory gave nothing or the empty string and searchMemories
\* gave no result; when no read failed, exactly when the store holds no
\* non-empty persistent memory for the user and none of the user's three
\* nearest memories passes the relevance filter.
C13_EmptyContextIff ==
    svcCall.op = "getPersonalizedContext" /\ svcCall.pc = "done" =>
        /\ svcCall.text = <<>>
              <=> (~Truthy(svcCall.persistent) /\ Len(svcCall.results) = 0)
        /\ dbEnabled /\ svcCall.fault = "none" =>
              (svcCall.text = <<>>
                 <=> /\ \A c \in ContentsOf(persistentMemory, svcCall.userId) :
                          c = EmptyText
                     /\ RelevantRows = {})
        /\ ~dbEnabled => svcCall.text = <<>>

\* C13 witness: the stored persistent memory is the empty string, no memory
\* passes the filter although the user has memories, and the context
\* returned is empty.
C13_Witness ==
    /\ svcCall.op = "getPersonalizedContext"
    /\ svcCall.pc = "done"
    /\ svcCall.fault = "none"
    /\ svcCall.text = <<>>
    /\ svcCall.persistent = Some(EmptyText)
    /\ MemoriesOf(memoryEmbeddings, svcCall.userId) # {}

\* the places of a piece in a text
Places(text, piece) == {i \in 1..Len(text) : text[i] = piece}

\* C14: in the text getPersonalizedContext returns each section occurs at
\* most once, the persistent-memory section comes before the
\* retrieved-memories section, and there are at most 3 bullet lines, all of
\* them after the retrieved-memories heading.
C14_ContextOrderAndSize ==
    svcCall.op = "getPersonalizedContext" /\ svcCall.pc = "done" =>
        /\ Cardinality(Places(svcCall.text, PersistentHeading)) <= 1
        /\ Cardinality(Places(svcCall.text, RecentHeading)) <= 1
        /\ \A i \in Places(svcCall.text, PersistentHeading) :
              \A j \in Places(svcCall.text, RecentHeading) : i < j
        /\ Cardinality(Places(svcCall.text, Bullet)) <= 3
        /\ Cardinality(Places(svcCall.text, Bullet)) = Len(svcCall.results)
        /\ \A b \in Places(svcCall.text, Bullet) :
              \E j \in Places(svcCall.text, RecentHeading) : j < b

\* C14 witness: four memories of the user pass the filter and the text
\* returned holds the retrieved-memories section with three bullets.
C14_Witness ==
    /\ svcCall.op = "getPersonalizedContext"
    /\ svcCall.pc = "done"
    /\ Cardinality(RelevantRows) = 4
    /\ Places(svcCall.text, RecentHeading) # {}
    /\ Cardinality(Places(svcCall.text, Bullet)) = 3

\* Kinds of answer that carry nothing: null, false, [], '' and a plain return.
EmptyKinds == {"null", "false", "list", "text", "void"}

\* C17: with no store connection configured, every operation of the service
\* ends at once with null, false, an empty list or the empty string: it
\* raises nothing, calls the embedding API not once, and no table gets a row.
C17_NoStoreNoEffect ==
    ~dbEnabled =>
        /\ users = {} /\ apps = {} /\ chatSessions = {} /\ chatMessages = {}
        /\ memoryEmbeddings = {} /\ toolExecutions = {}
        /\ persistentMemory = EmptyBag
        /\ svcCall.pc # "idle" =>
              /\ svcCall.pc = "done"
              /\ svcCall.kind \in EmptyKinds
              /\ svcCall.results = <<>> /\ svcCall.rows = {}
              /\ svcCall.text = <<>>
              /\ svcCall.persistent = Null
              /\ svcCall.embedCalls = 0
              /\ svcCall.fault = "none" /\ svcCall.raised = NoError
        /\ toolCall.pc # "idle" =>
              /\ toolCall.pc = "done"
              /\ toolCall.attempts = 0 /\ toolCall.embedCalls = 0
              /\ toolCall.fault = "none" /\ toolCall.raised = NoError

C17_Witness ==
    /\ ~dbEnabled
    /\ hasApiKey
    /\ started = MaxServiceCalls
    /\ svcCall.pc = "done"
    /\ svcCall.op = "saveChatMessage"
    /\ svcCall.kind = "null"


\* C18: ensureUser is an idempotent upsert.  Once a call for a userId has
\* ended (with a store, and the store not failing) there is exactly one user row with
\* that id, a supplied email or name is the one in the row, and the same
\* call again would leave the users table as it is.
C18_EnsureUserUpsert ==
    (/\ dbEnabled /\ svcCall.op = "ensureUser" /\ svcCall.pc = "done"
     /\ svcCall.fault # "store") =>
        /\ Cardinality(UserRows(users, svcCall.userId)) = 1
        /\ \A r \in UserRows(users, svcCall.userId) :
              /\ svcCall.email # "" => r.email = svcCall.email
              /\ svcCall.name # "" => r.name = svcCall.name
        /\ ensureUser(users, svcCall.userId, svcCall.email, svcCall.name) = users


\* C19: an apps DELETE answered with success removes the app: a list of the
\* user's apps answered afterwards does not contain the app of that appId.
C19_DeletedAppNotListed ==
    (appReq.pc = "done" /\ appReq.method = "GET" /\ appReq.success) =>
        \A r \in appReq.apps : r.id \notin appReq.deleted


\* C20: parseStructuredPlan returns null exactly when the marker is absent
\* from the text; for a text with the marker and without any
\* '# Project Plan: ' it returns a plan whose title is 'Untitled Project'.
C20_ParseStructuredPlan ==
    planCall.pc = "done" =>
        LET marked == \E i \in 1..Len(planCall.content) :
                         planCall.content[i] = Marker
            titled == \E i \in 1..Len(planCall.content) :
                         planCall.content[i] = TitlePrefix
        IN /\ ~planCall.result.some <=> ~marked
           /\ (marked /\ ~titled) =>
                 /\ planCall.result.some
                 /\ planCall.result.title = Untitled

C20_Witness ==
    /\ planCall.pc = "done"
    /\ Len(planCall.content) = MaxPlanLength
    /\ planCall.content[2] = Marker
    /\ \A i \in 1..Len(planCall.content) : planCall.content[i] # TitlePrefix
    /\ planCall.result.some
    /\ planCall.result.title = Untitled


\* the text from just after the first '### <name>' heading of a section to
\* the next '### ' heading or the end of the section, trimmed
TextAfterHeading(content, subsection) ==
    LET from == ContentFromAfterHeading(indexOf(content, HeadingOf(subsection)),
                                        subsection)
    IN trim(substring(content, from, subsectionEnd(content, from)))

\* C21: subsection extraction returns the text from just after the
\* '### <name>' heading to the start of the next '### ' heading (or the end
\* of the section); no character of the heading is part of the text or of an
\* item.
C21_SubsectionAfterHeading ==
    (planCall.pc = "done" /\ planCall.text.some) =>
        /\ planCall.text.val = TextAfterHeading(planCall.section, planCall.subsection)
        /\ planCall.items.some =>
              \A i \in 1..Len(planCall.items.val) :
                 \A k \in 1..Len(planCall.items.val[i]) :
                    planCall.items.val[i][k] \notin {"#", "P", "h", "a", "s", "e"}


\* C22: in every reachable state each chat message references an existing
\* chat session; once a delete of a session by its owner has been answered
\* with success, no message of that session remains and getChatMessages for
\* it returns nothing.
C22_MessagesHaveSessions ==
    /\ \A m \in chatMessages : \E s \in chatSessions : s.id = m.chatSessionId
    /\ \A p \in Procs :
          (/\ chatReq[p].op = "delete" /\ chatReq[p].pc = "done"
           /\ chatReq[p].status = 200 /\ chatReq[p].owner) =>
              /\ \A m \in chatMessages : m.chatSessionId # chatReq[p].sid
              /\ getChatMessages(chatMessages, chatReq[p].userId,
                                 chatReq[p].sid) = {}

\* C22 witness: a message was saved in a session, and the owner's delete of
\* that session was then answered with success.
C22_Witness ==
    \E p, q \in Procs :
        /\ chatReq[p].op = "delete" /\ chatReq[p].pc = "done"
        /\ chatReq[p].status = 200 /\ chatReq[p].owner
        /\ chatReq[q].op = "append" /\ chatReq[q].pc = "done"
        /\ chatReq[q].status = 200 /\ chatReq[q].msg # NoId
        /\ chatReq[q].sid = chatReq[p].sid
        /\ chatMessages = {}


\* text holds part as a run of consecutive characters
Contains(text, part) ==
    \E i \in 0..(Len(text) - Len(part)) : SubSeq(text, i + 1, i + Len(part)) = part

\* C23: when two 'append' requests for the same user overlap and both are
\* answered with success (no statement of either failing), the persistent
\* memory afterwards holds both appended contents: no successful append is
\* lost.
C23_NoAppendLost ==
    \A p, q \in Procs :
        (/\ p # q
         /\ memReq[p].pc = "done" /\ memReq[q].pc = "done"
         /\ memReq[p].action = "append" /\ memReq[q].action = "append"
         /\ memReq[p].status = 200 /\ memReq[q].status = 200
         /\ memReq[p].fault = "none" /\ memReq[q].fault = "none"
         /\ memReq[p].userId = memReq[q].userId
         /\ memReq[p].arg # EmptyText /\ memReq[q].arg # EmptyText
         /\ memReq[p].arg # memReq[q].arg) =>
            \E r \in RowsOf(persistentMemory, memReq[p].userId) :
                /\ Contains(r.content, memReq[p].arg)
                /\ Contains(r.content, memReq[q].arg)


\* C24: saveChatMessage returns null only if no message row was persisted:
\* whenever an append request is answered 500, the table of chat messages
\* holds no row that the request inserted.
C24_FailedSaveLeavesNoMessage ==
    \A p \in Procs :
        (/\ chatReq[p].op = "append" /\ chatReq[p].pc = "done"
         /\ chatReq[p].status = 500) =>
            \A m \in chatMessages : m.id # chatReq[p].msg


\* a step in which a persistent-memory request is rejected with status 400
C25_Step ==
    (\E p \in Procs :
        /\ memReq[p].pc \notin {"idle", "done"}
        /\ memReq'[p].pc = "done" /\ memReq'[p].status = 400
        /\ memReq[p].action \in {"set", "append", "clear"})
    => UNCHANGED <<users, persistentMemory>>

\* C25: a persistent-memory request rejected with status 400 (set or append
\* without string content, or an unknown action) writes nothing: the users
\* and persistent-memory tables are as they were.
C25_RejectedWritesNothing == [][C25_Step]_vars


\* a step in which updateChatSessionTitle or deleteChatSession, called for a
\* session that exists and belongs to another user, ends
C26_Step ==
    (/\ svcCall.pc \in {"updateChatSessionTitle", "deleteChatSession"}
     /\ svcCall'.pc = "done"
     /\ \E s \in chatSessions : s.id = svcCall.sid /\ s.userId # svcCall.userId)
    => /\ UNCHANGED <<chatSessions, chatMessages>>
       /\ svcCall'.kind = "false"

\* C26: updateChatSessionTitle and deleteChatSession called with a userId
\* that does not own the session leave every chat session and chat message
\* unchanged, and the call returns false, not true.
C26_NonOwnerCallFails == [][C26_Step]_vars


\* C27: starting with no current chat, the storeMessage calls of the hook,
\* overlapping ones included, create exactly one chat session, and every
\* stored message lands in that session.
C27_OneSessionForAllMessages ==
    /\ hook.created <= 1
    /\ \A i, j \in StoreCalls :
          (hook.calls[i].stored /\ hook.calls[j].stored) =>
              hook.calls[i].chatId = hook.calls[j].chatId


\* how often a listener was invoked by the last notification
Invocations(l) ==
    Cardinality({i \in 1..Len(auth.invoked) : auth.invoked[i] = l})

\* C28: every auth-state update invokes each listener registered at the
\* moment of the update exactly once, also when another listener throws or
\* unsubscribes itself during the notification; no listener is invoked after
\* its unsubscribe function has returned.
C28_EveryListenerNotifiedOnce ==
    /\ ~auth.late
    /\ auth.pc = "idle" => \A l \in auth.registered : Invocations(l) = 1

\* C29: in every reachable state of GoogleAuthService, isAuthenticated is
\* true if and only if user is not null.
C29_AuthenticatedIffUser ==
    auth.isAuthenticated <=> auth.user # NoUser


\* C30: once a stored session has expired (30 days have passed since its
\* timestamp), no later getUserId returns the expired user id and no later
\* hasActiveSession reports it active, whatever getUserId, hasActiveSession,
\* refreshSession and clearSession calls come between.
C30_ExpiredSessionStaysExpired ==
    /\ userSession.op = "getUserId" => userSession.result \notin userSession.expired
    /\ (userSession.op = "hasActiveSession" /\ userSession.active) =>
          userSession.stored.userId \notin userSession.expired


====
